---- MODULE Spec2Model ----
(***************************************************************************)
(* Verification model of FileZ / filejacket: the FileActions ledger, the   *)
(* cache strategies and the FileContent controller, the processor          *)
(* pipeline, and BaseFile.save.                                            *)
(* Every component has its own specification over its own variables; the   *)
(* variables of the other components keep their initial values.            *)
(***************************************************************************)
EXTENDS Integers, Sequences, FiniteSets, TLC

VARIABLES
    actions,      \* FileActions: the 16 boolean flags
    kwargs,       \* FileActions: keyword arguments given to __init__
    lastCall,     \* FileActions: name of the last method called ("" = none)
    ncalls,       \* FileActions: number of method calls made so far
    fc,           \* FileContent: the controller object (record of its attributes)
    op,           \* FileContent: last operation called on the controller
    exc,          \* FileContent: exception raised by the last operation (None = returned)
    val,          \* FileContent: value returned by the last operation
    yielded,      \* FileContent: blocks returned by next() since the last iter(), concatenated
    phase,        \* FileContent: where the run stands in the scenarios the claims describe
    iterating,    \* FileContent: a next() returned a block and no StopIteration was raised since
    asked,        \* FileContent: the size given to the last operation if it was read(size), else 0
    strategy,     \* cache strategy used on its own: the strategy object
    iterator,     \* cache strategy used on its own: items left in the iterator given to consume
    cop,          \* cache strategy used on its own: last method called
    cexc,         \* cache strategy used on its own: exception raised by the last call
    cval,         \* cache strategy used on its own: content returned by the last call
    seen,         \* cache strategy used on its own: methods called so far
    pipeline,     \* Pipeline: the ordered bindings (processor family, stopper, stop_value)
    runAt,        \* Pipeline: binding the run is about to invoke (0 = no run in progress)
    ran,          \* Pipeline: run() has been called
    last_result,  \* Pipeline: last_result
    errors,       \* Pipeline: the error list, one entry per exception caught
    executed,     \* Pipeline: bindings whose process was invoked in the run, with what it did
    processor,    \* Pipeline: the binding that ran last (0 = none)
    world,        \* BaseFile: the file object, the storage and the naming ledger
    touched,      \* BaseFile: the parts of world the last call left different
    cases,        \* BaseFile: which refusal cases (1..4) held when save() was last called
    valid,        \* BaseFile: validate() passed in the last save()
    saves,        \* BaseFile: number of save() calls made so far
    sop,          \* BaseFile: last method called on the file
    sexc,         \* BaseFile: exception raised by the last call (None = returned)
    previous,     \* BaseFile: previous_saved_extension when save() was last called
    renamer,      \* Renamer: the class attributes file_system_handler and reserved_names
    storages,     \* Renamer: the filenames that exist in each storage
    rcall,        \* Renamer: the last call of get_name or process, and what it did
    manifests,    \* Hasher: each checksum file of the directory, Absent or Holding lines
    hash_digested_values,  \* Hasher: the class cache, None or <<digest, file>> for the directory
    hcall,        \* Hasher: the last call of load_from_file and its outcome
    original,       \* Serializer: the file handed to serialize and the serializer in use
    serialized,   \* Serializer: the dictionary serialize returned
    restored,     \* Serializer: what deserialize gave for that dictionary
    compared,     \* BaseFile comparison: the two files, the last operator used and its outcome
    comparing,    \* BaseComparer: the last call of process, its objects_to_compare and outcome
    extraction,   \* Extracters: the fields of the file, and the last call of extract
    packet,   \* FilePacket: the packet now and before the last call, and that call
    constructed,   \* FileActions(kwargs): the arguments, the object made, its last call and __serialize__
    lifecycle,   \* BaseFile: the file and its storage, the last of its calls and what it raised
    hashing,   \* BaseHasher.process: the hasher class and the file, the last call and its outcome
    package,   \* PackageExtractor: the last call of validate or process, its arguments and outcome
    cbuffer,   \* ContentBuffer of an archived entry: the object, its last call and what it returned
    archive    \* decompress of an archive extractor: its arguments, what it returned and the entries extracted

actionsVars == <<actions, kwargs, lastCall, ncalls>>
contentVars == <<fc, op, exc, val, yielded, phase, iterating, asked>>
cacheVars == <<strategy, iterator, cop, cexc, cval, seen>>
pipelineVars == <<pipeline, runAt, ran, last_result, errors, executed, processor>>
saveVars == <<world, touched, cases, valid, saves, sop, sexc, previous>>
renamerVars == <<renamer, storages, rcall>>
hasherVars == <<manifests, hash_digested_values, hcall>>
serializerVars == <<original, serialized, restored>>
vars == <<actionsVars, contentVars, cacheVars, pipelineVars, saveVars, renamerVars, hasherVars,
          serializerVars, compared, comparing, extraction, packet, constructed, lifecycle,
          hashing, package, cbuffer, archive>>

\* What a step of one component leaves alone: the other components.
exceptActions ==
    <<contentVars, cacheVars, pipelineVars, saveVars, renamerVars, hasherVars,
      serializerVars, compared, comparing, extraction, packet, constructed, lifecycle,
      hashing, package, cbuffer, archive>>
exceptContent ==
    <<actionsVars, cacheVars, pipelineVars, saveVars, renamerVars, hasherVars,
      serializerVars, compared, comparing, extraction, packet, constructed, lifecycle,
      hashing, package, cbuffer, archive>>
exceptCache ==
    <<actionsVars, contentVars, pipelineVars, saveVars, renamerVars, hasherVars,
      serializerVars, compared, comparing, extraction, packet, constructed, lifecycle,
      hashing, package, cbuffer, archive>>
exceptExtracter ==
    <<actionsVars, contentVars, cacheVars, pipelineVars, saveVars, renamerVars, hasherVars,
      serializerVars, compared, comparing, packet, constructed, lifecycle, hashing, package,
      cbuffer, archive>>
exceptPacket ==
    <<actionsVars, contentVars, cacheVars, pipelineVars, saveVars, renamerVars, hasherVars,
      serializerVars, compared, comparing, extraction, constructed, lifecycle, hashing,
      package, cbuffer, archive>>
exceptConstruct ==
    <<actionsVars, contentVars, cacheVars, pipelineVars, saveVars, renamerVars, hasherVars,
      serializerVars, compared, comparing, extraction, packet, lifecycle, hashing, package,
      cbuffer, archive>>
exceptLifecycle ==
    <<actionsVars, contentVars, cacheVars, pipelineVars, saveVars, renamerVars, hasherVars,
      serializerVars, compared, comparing, extraction, packet, constructed, hashing, package,
      cbuffer, archive>>
exceptHashing ==
    <<actionsVars, contentVars, cacheVars, pipelineVars, saveVars, renamerVars, hasherVars,
      serializerVars, compared, comparing, extraction, packet, constructed, lifecycle,
      package, cbuffer, archive>>
exceptPackage ==
    <<actionsVars, contentVars, cacheVars, pipelineVars, saveVars, renamerVars, hasherVars,
      serializerVars, compared, comparing, extraction, packet, constructed, lifecycle,
      hashing, cbuffer, archive>>
exceptBuffer ==
    <<actionsVars, contentVars, cacheVars, pipelineVars, saveVars, renamerVars, hasherVars,
      serializerVars, compared, comparing, extraction, packet, constructed, lifecycle,
      hashing, package, archive>>
exceptDecompress ==
    <<actionsVars, contentVars, cacheVars, pipelineVars, saveVars, renamerVars, hasherVars,
      serializerVars, compared, comparing, extraction, packet, constructed, lifecycle,
      hashing, package, cbuffer>>
exceptHasher ==
    <<actionsVars, contentVars, cacheVars, pipelineVars, saveVars, renamerVars,
      serializerVars, compared, comparing, extraction, packet, constructed, lifecycle,
      hashing, package, cbuffer, archive>>
exceptPipeline ==
    <<actionsVars, contentVars, cacheVars, saveVars, renamerVars, hasherVars, serializerVars,
      compared, comparing, extraction, packet, constructed, lifecycle, hashing, package,
      cbuffer, archive>>
exceptRenamer ==
    <<actionsVars, contentVars, cacheVars, pipelineVars, saveVars, hasherVars,
      serializerVars, compared, comparing, extraction, packet, constructed, lifecycle,
      hashing, package, cbuffer, archive>>
exceptSerializer ==
    <<actionsVars, contentVars, cacheVars, pipelineVars, saveVars, renamerVars, hasherVars,
      compared, comparing, extraction, packet, constructed, lifecycle, hashing, package,
      cbuffer, archive>>
exceptCompare ==
    <<actionsVars, contentVars, cacheVars, pipelineVars, saveVars, renamerVars, hasherVars,
      serializerVars, comparing, extraction, packet, constructed, lifecycle, hashing,
      package, cbuffer, archive>>
exceptComparer ==
    <<actionsVars, contentVars, cacheVars, pipelineVars, saveVars, renamerVars, hasherVars,
      serializerVars, compared, extraction, packet, constructed, lifecycle, hashing, package,
      cbuffer, archive>>
exceptSave ==
    <<actionsVars, contentVars, cacheVars, pipelineVars, renamerVars, hasherVars,
      serializerVars, compared, comparing, extraction, packet, constructed, lifecycle,
      hashing, package, cbuffer, archive>>

None == "None"

(***************************************************************************)
(* FileActions (src/filejacket/file/action.py)                             *)
(***************************************************************************)

\* Bound: how many actions the constructor's kwargs name flags of.
MaxKwargActions == 1

\* Bound: length of the sequences of method calls explored.
MaxCalls == 3

PendingFlags == {"save", "extract", "rename", "move", "hash", "list", "preview", "thumbnail"}

DoneFlags == {"was_saved", "was_extracted", "was_renamed", "was_moved", "was_hashed",
              "was_listed", "was_previewed", "was_thumbnailed"}

FlagNames == PendingFlags \cup DoneFlags

\* The was_<done> flag that belongs to a pending flag.
DoneOf(a) ==
    CASE a = "save" -> "was_saved"
      [] a = "extract" -> "was_extracted"
      [] a = "rename" -> "was_renamed"
      [] a = "move" -> "was_moved"
      [] a = "hash" -> "was_hashed"
      [] a = "list" -> "was_listed"
      [] a = "preview" -> "was_previewed"
      [] a = "thumbnail" -> "was_thumbnailed"

\* Class attributes: every flag defaults to False.
FileActionsDefaults == [f \in FlagNames |-> FALSE]

\* FileActions.__init__(kwargs): setattr for every key of kwargs.
FileActions_init(kw) == [f \in FlagNames |-> IF f \in DOMAIN kw THEN kw[f] ELSE FileActionsDefaults[f]]

to_extract(self) == [self EXCEPT !["extract"] = TRUE, !["was_extracted"] = FALSE]
extracted(self) == [self EXCEPT !["extract"] = FALSE, !["was_extracted"] = TRUE]
to_save_keeps_was_saved(self) == [self EXCEPT !["save"] = TRUE]
to_save(self) == [self EXCEPT !["save"] = TRUE, !["was_saved"] = FALSE]
saved(self) == [self EXCEPT !["save"] = FALSE, !["was_saved"] = TRUE]
to_rename(self) == [self EXCEPT !["rename"] = TRUE, !["was_renamed"] = FALSE]
renamed(self) == [self EXCEPT !["rename"] = FALSE, !["was_renamed"] = TRUE]
to_move(self) == [self EXCEPT !["move"] = TRUE, !["was_moved"] = FALSE]
moved(self) == [self EXCEPT !["move"] = FALSE, !["was_moved"] = TRUE]
to_hash(self) == [self EXCEPT !["hash"] = TRUE, !["was_hashed"] = FALSE]
hashed_keeps_hash(self) == [self EXCEPT !["was_hashed"] = TRUE]
hashed(self) == [self EXCEPT !["hash"] = FALSE, !["was_hashed"] = TRUE]
to_list(self) == [self EXCEPT !["list"] = TRUE, !["was_listed"] = FALSE]
listed(self) == [self EXCEPT !["list"] = FALSE, !["was_listed"] = TRUE]
to_preview(self) == [self EXCEPT !["preview"] = TRUE, !["was_previewed"] = FALSE]
previewed(self) == [self EXCEPT !["preview"] = FALSE, !["was_previewed"] = TRUE]
to_thumbnail(self) == [self EXCEPT !["thumbnail"] = TRUE, !["was_thumbnailed"] = FALSE]
thumbnailed(self) == [self EXCEPT !["thumbnail"] = FALSE, !["was_thumbnailed"] = TRUE]

ToMethods == {"to_save", "to_extract", "to_rename", "to_move", "to_hash", "to_list",
              "to_preview", "to_thumbnail"}

DoneMethods == {"saved", "extracted", "renamed", "moved", "hashed", "listed",
                "previewed", "thumbnailed"}

\* The pending flag a method works on.
PendingOf(m) ==
    CASE m \in {"to_save", "saved"} -> "save"
      [] m \in {"to_extract", "extracted"} -> "extract"
      [] m \in {"to_rename", "renamed"} -> "rename"
      [] m \in {"to_move", "moved"} -> "move"
      [] m \in {"to_hash", "hashed"} -> "hash"
      [] m \in {"to_list", "listed"} -> "list"
      [] m \in {"to_preview", "previewed"} -> "preview"
      [] m \in {"to_thumbnail", "thumbnailed"} -> "thumbnail"

\* Dispatch of a method call by name.
CallMethod(m, self) ==
    CASE m = "to_save" -> to_save(self)
      [] m = "saved" -> saved(self)
      [] m = "to_extract" -> to_extract(self)
      [] m = "extracted" -> extracted(self)
      [] m = "to_rename" -> to_rename(self)
      [] m = "renamed" -> renamed(self)
      [] m = "to_move" -> to_move(self)
      [] m = "moved" -> moved(self)
      [] m = "to_hash" -> to_hash(self)
      [] m = "hashed" -> hashed(self)
      [] m = "to_list" -> to_list(self)
      [] m = "listed" -> listed(self)
      [] m = "to_preview" -> to_preview(self)
      [] m = "previewed" -> previewed(self)
      [] m = "to_thumbnail" -> to_thumbnail(self)
      [] m = "thumbnailed" -> thumbnailed(self)

(***************************************************************************)
(* Cache strategies (src/filejacket/file/content.py)                       *)
(***************************************************************************)

\* A strategy object: cls is its class; data is what it stored (the temporary
\* file of CacheInFile, the buffer of CacheInMemory); exists tells whether the
\* temporary file of CacheInFile exists; cached is the attribute `cached`.
Strategy(cls, exists) == [cls |-> cls, data |-> << >>, exists |-> exists, cached |-> FALSE]

\* self._cached_content = None: no strategy object yet.
NoStrategy == Strategy(None, FALSE)

\* Result of a call: the exception raised (None = none) and the value returned.
Raise(e) == [exc |-> e, val |-> None]
Return(v) == [exc |-> None, val |-> v]

\* BufferStr and BufferBytes define no __call__, and FileContent always holds an
\* instance of one of them as buffer_helper.
BufferHelperIsCallable == FALSE

\* CacheInFile.__init__: takes a temporary path from the storage and keeps the helper.
CacheInFile_init(tempExists) == Return(Strategy("CacheInFile", tempExists))

\* CacheInMemory.__init__: calls buffer_helper(newline=...).
CacheInMemory_init ==
    IF BufferHelperIsCallable THEN Return(Strategy("CacheInMemory", TRUE)) ELSE Raise("TypeError")

\* NonCache.__init__: does nothing.
NonCache_init == Return(Strategy("NonCache", FALSE))

\* cache_helper(buffer_helper=self.buffer_helper)
NewStrategy(cls, tempExists) ==
    CASE cls = "NonCache" -> NonCache_init
      [] cls = "CacheInFile" -> CacheInFile_init(tempExists)
      [] cls = "CacheInMemory" -> CacheInMemory_init

\* save_and_return(content): the strategy after the call (the call returns content).
CacheInFile_save_and_return(s, chunk) == [s EXCEPT !.data = s.data \o chunk, !.exists = TRUE]
CacheInMemory_save_and_return(s, chunk) == [s EXCEPT !.data = s.data \o chunk]
NonCache_save_and_return(s, chunk) == s

save_and_return(s, chunk) ==
    CASE s.cls = "NonCache" -> NonCache_save_and_return(s, chunk)
      [] s.cls = "CacheInFile" -> CacheInFile_save_and_return(s, chunk)
      [] s.cls = "CacheInMemory" -> CacheInMemory_save_and_return(s, chunk)

\* load_from_cache(): the whole stored content.
CacheInFile_load_from_cache(s) ==
    IF ~s.exists THEN Raise("FileNotFoundError")
    ELSE IF s.data = << >> THEN Raise("EmptyContentError")
    ELSE Return(s.data)

CacheInMemory_load_from_cache(s) == Return(s.data)

NonCache_load_from_cache_returns_empty(s) == Return(<< >>)
NonCache_load_from_cache(s) == Raise("OperationNotAllowed")

load_from_cache(s) ==
    CASE s.cls = "NonCache" -> NonCache_load_from_cache(s)
      [] s.cls = "CacheInFile" -> CacheInFile_load_from_cache(s)
      [] s.cls = "CacheInMemory" -> CacheInMemory_load_from_cache(s)

\* load_buffer_from_cache(): a seekable stream over the stored content; the
\* value returned is the content the stream reads from position 0.
CacheInFile_load_buffer_from_cache(s) ==
    IF ~s.exists THEN Raise("FileNotFoundError") ELSE Return(s.data)

CacheInMemory_load_buffer_from_cache(s) == Return(s.data)

NonCache_load_buffer_from_cache(s) == Raise("OperationNotAllowed")

load_buffer_from_cache(s) ==
    CASE s.cls = "NonCache" -> NonCache_load_buffer_from_cache(s)
      [] s.cls = "CacheInFile" -> CacheInFile_load_buffer_from_cache(s)
      [] s.cls = "CacheInMemory" -> CacheInMemory_load_buffer_from_cache(s)

\* set_cached()
CacheInFile_set_cached(s) == [s EXCEPT !.cached = TRUE]
CacheInMemory_set_cached(s) == [s EXCEPT !.cached = TRUE]
NonCache_set_cached(s) == s

set_cached(s) ==
    CASE s.cls = "NonCache" -> NonCache_set_cached(s)
      [] s.cls = "CacheInFile" -> CacheInFile_set_cached(s)
      [] s.cls = "CacheInMemory" -> CacheInMemory_set_cached(s)

\* consume(iterator): the value returned tells whether the call runs
\* next(iterator) until StopIteration.
CacheInFile_consume(s) == Return(~s.cached)
CacheInMemory_consume(s) == Return(~s.cached)
NonCache_consume(s) == Raise("OperationNotAllowed")

strategy_consume(s) ==
    CASE s.cls = "NonCache" -> NonCache_consume(s)
      [] s.cls = "CacheInFile" -> CacheInFile_consume(s)
      [] s.cls = "CacheInMemory" -> CacheInMemory_consume(s)

(***************************************************************************)
(* FileContent (src/filejacket/file/content.py)                            *)
(***************************************************************************)

\* Bound: length of the source content.
MaxLen == 3

\* Bound: largest block size / read size.
MaxBlock == 2

Alphabet == {"a", "b"}

\* Non-empty contents of at most MaxLen symbols.
Contents == UNION {[1..n -> Alphabet] : n \in 1..MaxLen}

Min(a, b) == IF a < b THEN a ELSE b

\* The controller right after FileContent.__init__.
\*   source, seekable, spos : the raw stream, whether it is seekable, its position
\*   buffer                 : "raw" while self.buffer is the raw stream, "cache"
\*                            once it is the stream of the cache strategy
\*   cpos                   : position of the stream of the cache strategy
\*   cache_helper           : class of the strategy;  cc : self._cached_content
\*   tempExists             : whether the storage creates the temporary file
\*                            when it hands out its path
\*   force, configured      : the argument force, and the cache_helper the
\*                            caller configured (None = none)
FileContent_init(source, seekable, force, helperKwarg, bufferKwarg, blockSize, tempExists) ==
    [source |-> source, seekable |-> seekable, spos |-> 0,
     buffer |-> "raw", cpos |-> 0,
     cache_helper |->
        IF bufferKwarg THEN helperKwarg
        ELSE IF ~seekable \/ force THEN "CacheInMemory"
        ELSE IF helperKwarg = None THEN "NonCache"
        ELSE helperKwarg,
     cc |-> NoStrategy,
     tempExists |-> tempExists,
     block_size |-> blockSize,
     in_use |-> FALSE,
     force |-> force,
     configured |-> helperKwarg]

\* self.cached: self._cached_content and self._cached_content.cached
cached(self) == self.cc # NoStrategy /\ self.cc.cached

\* self.buffer.seekable() / FileContent.is_seekable
is_seekable(self) == IF self.buffer = "raw" THEN self.seekable ELSE TRUE

\* What self.buffer holds and where it stands.
BufferData(self) == IF self.buffer = "raw" THEN self.source ELSE self.cc.data
BufferPos(self) == IF self.buffer = "raw" THEN self.spos ELSE self.cpos

\* self.buffer.read(n): the block read.
BufferRead(self, n) == SubSeq(BufferData(self), BufferPos(self) + 1, Min(BufferPos(self) + n, Len(BufferData(self))))

\* The controller after self.buffer has moved to position p.
BufferAt(self, p) == IF self.buffer = "raw" THEN [self EXCEPT !.spos = p] ELSE [self EXCEPT !.cpos = p]

\* FileContent.reset(): seek(0) when the buffer is seekable.
reset(self) == IF is_seekable(self) THEN BufferAt(self, 0) ELSE self

\* Values handed to the caller: nothing, the controller itself, a block or a
\* whole content, a stream (what it holds and where it stands).
NoVal == [kind |-> "none", data |-> << >>, pos |-> 0]
Self == [kind |-> "self", data |-> << >>, pos |-> 0]
Bytes(data) == [kind |-> "bytes", data |-> data, pos |-> 0]
Stream(data, pos) == [kind |-> "stream", data |-> data, pos |-> pos]

\* Result of a method of the controller: the controller after the call, the
\* exception raised (None = none), the value returned.
Res(self, e, v) == [fc |-> self, exc |-> e, val |-> v]

\* FileContent.__iter__ once cache_helper(buffer_helper=...) has returned or raised.
iter_built(self, r) ==
    IF r.exc # None THEN Res(self, r.exc, NoVal)
    ELSE Res([self EXCEPT !.cc = r.val], None, Self)

\* FileContent.__iter__(): builds the strategy on first use.
iter(self) ==
    IF self.cc = NoStrategy
    THEN iter_built(self, NewStrategy(self.cache_helper, self.tempExists))
    ELSE Res(self, None, Self)

next_stop_without_reset(self) == Res([self EXCEPT !.in_use = FALSE], "StopIteration", NoVal)

\* End of the exhausted branch of __next__: reset, clear the flag, raise StopIteration.
next_stop(self) == Res([reset(self) EXCEPT !.in_use = FALSE], "StopIteration", NoVal)

next_swap_keeps_buffer(self, r) ==
    IF r.exc = "OperationNotAllowed" THEN next_stop(self)
    ELSE IF r.exc # None THEN Res(self, r.exc, NoVal)
    ELSE next_stop([self EXCEPT !.cc = set_cached(self.cc)])

\* The exhausted branch of __next__ once load_buffer_from_cache has returned
\* or raised: OperationNotAllowed is swallowed, another exception leaves the
\* method, a stream replaces self.buffer and the strategy is marked cached.
next_swap(self, r) ==
    IF r.exc = "OperationNotAllowed" THEN next_stop(self)
    ELSE IF r.exc # None THEN Res(self, r.exc, NoVal)
    ELSE next_stop([self EXCEPT !.buffer = "cache", !.cpos = 0, !.cc = set_cached(self.cc)])

\* The exhausted branch of __next__ (the block read is empty).
next_exhausted(self) ==
    IF ~cached(self)
    THEN IF self.cc = NoStrategy THEN Res(self, "AttributeError", NoVal)
         ELSE next_swap(self, load_buffer_from_cache(self.cc))
    ELSE next_stop(self)

\* __next__ after self.buffer.read(self._block_size) returned block.
next_block(self, block) ==
    IF block = << >> THEN next_exhausted(self)
    ELSE IF ~cached(self)
         THEN IF self.cc = NoStrategy THEN Res(self, "AttributeError", NoVal)
              ELSE Res([self EXCEPT !.cc = save_and_return(self.cc, block)], None, Bytes(block))
         ELSE Res(self, None, Bytes(block))

\* __next__ after the flag is set: read one block, which moves the buffer.
next_read(self) ==
    next_block(BufferAt(self, BufferPos(self) + Len(BufferRead(self, self.block_size))),
               BufferRead(self, self.block_size))

\* FileContent.__next__()
next(self) == next_read([self EXCEPT !.in_use = TRUE])

\* The loop of CacheInFile.consume / CacheInMemory.consume over the controller:
\* next(iterator) until StopIteration; another exception leaves the loop.
RECURSIVE DrainIterator(_)
RECURSIVE DrainStep(_)
DrainStep(r) ==
    IF r.exc = "StopIteration" THEN Res(r.fc, None, NoVal)
    ELSE IF r.exc # None THEN r
    ELSE DrainIterator(r.fc)

DrainIterator(self) == DrainStep(next(self))

\* Outcome of consume after its loop; stopped: the iterator raised StopIteration.
Drained(r) == [fc |-> r.fc, exc |-> r.exc, stopped |-> (r.exc = None)]

\* consume once the strategy has decided (c) whether to refuse, skip or loop.
consume_decided(self, c) ==
    IF c.exc # None THEN [fc |-> self, exc |-> c.exc, stopped |-> FALSE]
    ELSE IF ~c.val THEN [fc |-> self, exc |-> None, stopped |-> FALSE]
    ELSE Drained(DrainIterator(self))

\* self._cached_content.consume(iterator=self); the field stopped tells
\* whether the iterator raised StopIteration during the call.
consume(self) == consume_decided(self, strategy_consume(self.cc))

ContentError_not_translated(e) == e

\* Translation of the exceptions FileContent.content catches.
ContentError(e) == IF e = "OperationNotAllowed" THEN "ImproperlyConfiguredFile" ELSE e

\* FileContent.content after load_from_cache returned or raised (l).
content_loaded(c, l) ==
    [fc |-> c.fc, exc |-> ContentError(l.exc),
     val |-> IF l.exc = None THEN Bytes(l.val) ELSE NoVal,
     stopped |-> c.stopped]

\* FileContent.content after consume returned or raised (c).
content_consumed(c) ==
    IF c.exc # None
    THEN [fc |-> c.fc, exc |-> ContentError(c.exc), val |-> NoVal, stopped |-> FALSE]
    ELSE content_loaded(c, load_from_cache(c.fc.cc))

\* FileContent.content after the strategy object was built (or failed to be).
content_built(built) ==
    IF built.exc # None
    THEN [fc |-> built.fc, exc |-> built.exc, val |-> NoVal, stopped |-> FALSE]
    ELSE content_consumed(consume(built.fc))

\* FileContent.content; the field stopped tells whether StopIteration was
\* raised inside.  EmptyContentError is raised again as EmptyContentError (the
\* controller is taken to have a related file object for the message).
content(self) ==
    content_built(IF self.cc = NoStrategy THEN iter(self) ELSE Res(self, None, Self))

\* FileContent.should_load_to_memory
should_load_to_memory(self) ==
    IF ~is_seekable(self) /\ cached(self) THEN Raise("CacheContentNotSeekableError")
    ELSE Return(~is_seekable(self) /\ ~cached(self))

\* content_as_buffer, branch that loads to memory, after self.content (r):
\* ImproperlyConfiguredFile leads to CacheInMemory() called without its
\* required argument.
content_as_buffer_loaded(r) ==
    IF r.exc = None THEN [r EXCEPT !.val = Stream(r.val.data, 0)]
    ELSE IF r.exc = "ImproperlyConfiguredFile" THEN [r EXCEPT !.exc = "TypeError"]
    ELSE r

\* content_as_buffer, branch that returns the live buffer after reset().
content_as_buffer_live(rewound) ==
    [fc |-> rewound, exc |-> None,
     val |-> Stream(BufferData(rewound), BufferPos(rewound)), stopped |-> FALSE]

\* content_as_buffer after should_load_to_memory returned or raised (load).
content_as_buffer_decided(self, load) ==
    IF load.exc # None THEN [fc |-> self, exc |-> load.exc, val |-> NoVal, stopped |-> FALSE]
    ELSE IF load.val THEN content_as_buffer_loaded(content(self))
    ELSE content_as_buffer_live(reset(self))

\* FileContent.content_as_buffer
content_as_buffer(self) == content_as_buffer_decided(self, should_load_to_memory(self))

\* read(size) after its call of __next__ (r): the block size and the flag are
\* restored only when __next__ returned.
read_block(self, r) ==
    IF r.exc # None
    THEN [fc |-> r.fc, exc |-> r.exc, val |-> NoVal, stopped |-> (r.exc = "StopIteration")]
    ELSE [fc |-> [r.fc EXCEPT !.block_size = self.block_size, !.in_use = FALSE],
          exc |-> None, val |-> r.val, stopped |-> FALSE]

\* read(size) past its guard: no size reads everything, a size reads one
\* block of that size through __next__.
read_sized(self, size) ==
    IF size = 0 THEN content(self)
    ELSE read_block(self, next([self EXCEPT !.block_size = size]))

read_without_guard(self, size) == read_sized(self, size)

\* FileContent.read(size); size = 0 also stands for a call without a size
\* (the code tests `not size`).
read(self, size) ==
    IF self.in_use THEN [fc |-> self, exc |-> "RecursionError", val |-> NoVal, stopped |-> FALSE]
    ELSE read_sized(self, size)

\* Bound: how much the cache strategy may hold (a seekable source can be
\* rewound and cached again without limit).
MaxStored == 4

WithinBounds(self) == Len(self.cc.data) <= MaxStored

HelperClasses == {"NonCache", "CacheInFile", "CacheInMemory"}

\* FileContent(raw_value, force, cache_helper=..., _block_size=...) and
\* FileContent(buffer=..., buffer_helper=..., cache_helper=...).
ContentInit ==
    /\ \E source \in Contents, seekable \in BOOLEAN, force \in BOOLEAN,
          helperKwarg \in HelperClasses \cup {None}, bufferKwarg \in BOOLEAN,
          blockSize \in 1..MaxBlock, tempExists \in BOOLEAN :
          /\ bufferKwarg => (helperKwarg # None /\ ~force)
          /\ fc = FileContent_init(source, seekable, force, helperKwarg, bufferKwarg,
                                   blockSize, tempExists)
    /\ op = "init"
    /\ exc = None
    /\ val = NoVal
    /\ yielded = << >>
    /\ phase = "fresh"
    /\ iterating = FALSE
    /\ asked = 0

ContentIdle ==
    /\ fc = FileContent_init(<<"a">>, TRUE, FALSE, None, FALSE, 1, FALSE)
    /\ op = "init"
    /\ exc = None
    /\ val = NoVal
    /\ yielded = << >>
    /\ phase = "fresh"
    /\ iterating = FALSE
    /\ asked = 0

\* iter(content)
Iter ==
    \E r \in {iter(fc)} :
       /\ fc' = r.fc
       /\ op' = "iter"
       /\ exc' = r.exc
       /\ val' = r.val
       /\ yielded' = << >>
       /\ phase' = IF phase = "fresh" THEN (IF r.exc = None THEN "iterating" ELSE "failed")
                   ELSE "other"
       /\ UNCHANGED iterating
       /\ asked' = 0
       /\ UNCHANGED exceptContent

\* next(content)
Next ==
    \E r \in {next(fc)} :
       /\ WithinBounds(r.fc)
       /\ fc' = r.fc
       /\ op' = "next"
       /\ exc' = r.exc
       /\ val' = r.val
       /\ yielded' = IF phase = "iterating" /\ r.exc = None THEN yielded \o r.val.data
                     ELSE IF phase = "iterating" THEN yielded ELSE << >>
       /\ phase' = IF phase = "iterating"
                   THEN (IF r.exc = None THEN "iterating"
                         ELSE IF r.exc = "StopIteration" THEN "exhausted" ELSE "failed")
                   ELSE "other"
       /\ iterating' = IF r.exc = None THEN TRUE
                       ELSE IF r.exc = "StopIteration" THEN FALSE ELSE iterating
       /\ asked' = 0
       /\ UNCHANGED exceptContent

\* content.content
Content ==
    \E r \in {content(fc)} :
       /\ WithinBounds(r.fc)
       /\ fc' = r.fc
       /\ op' = "content"
       /\ exc' = r.exc
       /\ val' = r.val
       /\ yielded' = << >>
       /\ phase' = IF phase = "exhausted" THEN "read" ELSE "other"
       /\ iterating' = IF r.stopped THEN FALSE ELSE iterating
       /\ asked' = 0
       /\ UNCHANGED exceptContent

\* content.content_as_buffer
ContentAsBuffer ==
    \E r \in {content_as_buffer(fc)} :
       /\ WithinBounds(r.fc)
       /\ fc' = r.fc
       /\ op' = "content_as_buffer"
       /\ exc' = r.exc
       /\ val' = r.val
       /\ yielded' = << >>
       /\ phase' = IF phase = "fresh" THEN "buffer1"
                   ELSE IF phase = "buffer1" THEN "buffer2" ELSE "other"
       /\ iterating' = IF r.stopped THEN FALSE ELSE iterating
       /\ asked' = 0
       /\ UNCHANGED exceptContent

\* content.read(size)
Read ==
    \E size \in 0..MaxBlock :
        \E r \in {read(fc, size)} :
           /\ WithinBounds(r.fc)
           /\ fc' = r.fc
           /\ op' = "read"
           /\ exc' = r.exc
           /\ val' = r.val
           /\ yielded' = << >>
           /\ phase' = "other"
           /\ iterating' = IF r.stopped THEN FALSE ELSE iterating
           /\ asked' = size
           /\ UNCHANGED exceptContent

\* content.reset()
Reset ==
    /\ fc' = reset(fc)
    /\ op' = "reset"
    /\ exc' = None
    /\ val' = NoVal
    /\ yielded' = << >>
    /\ phase' = "other"
    /\ UNCHANGED iterating
    /\ asked' = 0
    /\ UNCHANGED exceptContent

ContentNext == Iter \/ Next \/ Content \/ ContentAsBuffer \/ Read \/ Reset

(***************************************************************************)
(* A cache strategy used on its own                                        *)
(***************************************************************************)

\* Bound: items of the iterator handed to consume.
MaxItems == 2

Chunks == UNION {[1..n -> Alphabet] : n \in 1..MaxBlock}

\* A CacheInMemory as a caller gets it from a buffer_helper of their own that
\* can be called (BufferStr and BufferBytes cannot): content is a new stream.
CacheInMemory_made == Strategy("CacheInMemory", TRUE)

CacheInit ==
    /\ strategy \in {NonCache_init.val, CacheInFile_init(FALSE).val, CacheInFile_init(TRUE).val,
                     CacheInMemory_made}
    /\ iterator \in 0..MaxItems
    /\ cop = "init"
    /\ cexc = None
    /\ cval = << >>
    /\ seen = {}

CacheIdle ==
    /\ strategy = NoStrategy
    /\ iterator = 0
    /\ cop = "init"
    /\ cexc = None
    /\ cval = << >>
    /\ seen = {}

\* strategy.save_and_return(chunk)
SaveAndReturn ==
    \E chunk \in Chunks :
        /\ Len(save_and_return(strategy, chunk).data) <= MaxStored
        /\ strategy' = save_and_return(strategy, chunk)
        /\ cop' = "save_and_return"
        /\ cexc' = None
        /\ cval' = chunk
        /\ seen' = seen \cup {"save_and_return"}
        /\ UNCHANGED iterator
        /\ UNCHANGED exceptCache

\* strategy.set_cached()
SetCached ==
    /\ strategy' = set_cached(strategy)
    /\ cop' = "set_cached"
    /\ cexc' = None
    /\ cval' = << >>
    /\ seen' = seen \cup {"set_cached"}
    /\ UNCHANGED iterator
    /\ UNCHANGED exceptCache

\* strategy.load_from_cache()
LoadFromCache ==
    \E r \in {load_from_cache(strategy)} :
       /\ cop' = "load_from_cache"
       /\ cexc' = r.exc
       /\ cval' = IF r.exc = None THEN r.val ELSE << >>
       /\ seen' = seen \cup {"load_from_cache"}
       /\ UNCHANGED <<strategy, iterator>>
       /\ UNCHANGED exceptCache

\* strategy.load_buffer_from_cache()
LoadBufferFromCache ==
    \E r \in {load_buffer_from_cache(strategy)} :
       /\ cop' = "load_buffer_from_cache"
       /\ cexc' = r.exc
       /\ cval' = IF r.exc = None THEN r.val ELSE << >>
       /\ seen' = seen \cup {"load_buffer_from_cache"}
       /\ UNCHANGED <<strategy, iterator>>
       /\ UNCHANGED exceptCache

\* strategy.consume(iterator)
Consume ==
    \E r \in {strategy_consume(strategy)} :
       /\ cop' = "consume"
       /\ cexc' = r.exc
       /\ cval' = << >>
       /\ iterator' = IF r.exc = None /\ r.val THEN 0 ELSE iterator
       /\ seen' = seen \cup {"consume"}
       /\ UNCHANGED strategy
       /\ UNCHANGED exceptCache

CacheNext == SaveAndReturn \/ SetCached \/ LoadFromCache \/ LoadBufferFromCache \/ Consume

(***************************************************************************)
(* Pipeline (filejacket/pipelines/__init__.py is not among the sources:    *)
(* run() follows the design document, section 4.3) and the process entry   *)
(* points it invokes (src/filejacket/pipelines/base.py)                    *)
(***************************************************************************)

\* Python values a process method returns.
PyTrue == "True"
PyFalse == "False"
PyNone == "None"

Truthy(v) == v = PyTrue

\* Bound: number of bindings of a pipeline.
MaxBindings == 3

\* Bound: length of objects_to_compare.
MaxCompared == 1

\* What is_the_same may return for one element of objects_to_compare.
Verdicts == {PyTrue, PyFalse, PyNone}

VerdictLists == UNION {[1..n -> Verdicts] : n \in 0..MaxCompared}

\* BaseComparer.process, given what is_the_same returns for each element of
\* objects_to_compare in turn: the first result that is not truthy, else True;
\* an empty list raises ValueError.
BaseComparer_process(sames) ==
    IF sames = << >> THEN Raise("ValueError")
    ELSE IF \E i \in 1..Len(sames) : ~Truthy(sames[i])
         THEN Return(sames[CHOOSE i \in 1..Len(sames) :
                               /\ ~Truthy(sames[i])
                               /\ \A j \in 1..(i - 1) : Truthy(sames[j])])
         ELSE Return(PyTrue)

\* What extract may raise (None: it returns).
ExtractErrors == {None, "ValueError", "IOError"}

\* BaseExtractor.process: True once extract returned; its exception otherwise.
BaseExtractor_process(extractError) ==
    IF extractError # None THEN Raise(extractError) ELSE Return(PyTrue)

Families == {"comparer", "extractor"}

\* stop_value of a binding; "unset" when to_processor was given none.
Unset == "unset"
StopValues == {Unset, PyTrue, PyFalse}

\* cls.to_processor(stopper=..., stop_value=...)
to_processor(family, stopper, stop_value) ==
    [family |-> family, stopper |-> stopper, stop_value |-> stop_value]

Bindings(family) == {to_processor(family, s, v) : s \in BOOLEAN, v \in StopValues}

\* Pipeline(*bindings)
Pipeline_init(bindings) == [bindings |-> bindings]

\* The stopper contract: the binding is a stopper and the result equals its
\* stop value, or is truthy when no stop value was configured.
stops_when_truthy(binding, result) == binding.stopper /\ Truthy(result)

stops(binding, result) ==
    /\ binding.stopper
    /\ IF binding.stop_value = Unset THEN Truthy(result) ELSE result = binding.stop_value

\* Where the run goes after binding i returned result: 0 ends the run.
after_result(self, i, result) ==
    IF stops(self.bindings[i], result) \/ i = Len(self.bindings) THEN 0 ELSE i + 1

after_exception_ends_run(self, i) == 0

\* Where the run goes after binding i raised: the run continues.
after_exception(self, i) == IF i = Len(self.bindings) THEN 0 ELSE i + 1

\* A pipeline holds processors of one family (the comparers of
\* compare_pipeline, the extractors of extract_data_pipeline).
PipelineInit ==
    /\ \E family \in Families, n \in 0..MaxBindings :
          \E bs \in [1..n -> Bindings(family)] : pipeline = Pipeline_init(bs)
    /\ runAt = 0
    /\ ran = FALSE
    /\ last_result = PyNone
    /\ errors = << >>
    /\ executed = << >>
    /\ processor = 0

PipelineIdle ==
    /\ pipeline = Pipeline_init(<< >>)
    /\ runAt = 0
    /\ ran = FALSE
    /\ last_result = PyNone
    /\ errors = << >>
    /\ executed = << >>
    /\ processor = 0

\* pipeline.run(object_to_process, **kwargs) is entered.
RunStart ==
    /\ ~ran
    /\ ran' = TRUE
    /\ runAt' = IF Len(pipeline.bindings) = 0 THEN 0 ELSE 1
    /\ UNCHANGED <<pipeline, last_result, errors, executed, processor>>
    /\ UNCHANGED exceptPipeline

\* One turn of the loop of run(), given what process did (r): a result is
\* recorded as last_result and put to the stopper contract; an exception is
\* appended to the error list, counts as a False result and the run goes on.
RunTurn(r) ==
    /\ processor' = runAt
    /\ executed' = Append(executed, [binding |-> runAt, exc |-> r.exc, val |-> r.val])
    /\ IF r.exc # None
       THEN /\ errors' = Append(errors, [processor |-> runAt, exc |-> r.exc])
            /\ last_result' = PyFalse
            /\ runAt' = after_exception(pipeline, runAt)
       ELSE /\ last_result' = r.val
            /\ runAt' = after_result(pipeline, runAt, r.val)
            /\ UNCHANGED errors
    /\ UNCHANGED <<pipeline, ran>>
    /\ UNCHANGED exceptPipeline

\* The run invokes the process of a comparer binding.
ProcessComparer ==
    /\ runAt # 0
    /\ pipeline.bindings[runAt].family = "comparer"
    /\ \E sames \in VerdictLists : RunTurn(BaseComparer_process(sames))

\* The run invokes the process of an extractor binding.
ProcessExtractor ==
    /\ runAt # 0
    /\ pipeline.bindings[runAt].family = "extractor"
    /\ \E extractError \in ExtractErrors : RunTurn(BaseExtractor_process(extractError))

PipelineNext == RunStart \/ ProcessComparer \/ ProcessExtractor

(***************************************************************************)
(* BaseFile.save (src/handler/file/__init__.py) with FileState,            *)
(* FileNaming.rename and FileHashes.save (src/handler/file.py)             *)
(***************************************************************************)

\* Bound: number of save() calls in a behaviour.
MaxSaves == 1

\* The filename the file is given and the one the rename pipeline moves it to.
Filenames == {"a", "a (1)"}
Extensions == {"txt", "md"}

\* Content at a path of the storage: no file, a file with other content, or
\* the content this file wrote.
PathStates == {"none", "old", "new"}

\* Who holds a filename in FileNaming.reserved_filenames[save_to].
Owners == {"nobody", "self", "other"}

\* Storage calls of save() that may raise; None: none of them does.
FailPoints == {None, "backup", "save_file", "hashes.save", "get_path_id"}

\* Keyword options of save(); allow_search_hashes only reaches the hasher
\* pipeline as a parameter and is left out.
SaveOptions ==
    [overwrite : BOOLEAN, save_hashes : BOOLEAN, allow_update : BOOLEAN,
     allow_rename : BOOLEAN, allow_extension_change : BOOLEAN, create_backup : BOOLEAN]

\* save() called without options.
DefaultOptions ==
    [overwrite |-> FALSE, save_hashes |-> FALSE, allow_update |-> TRUE,
     allow_rename |-> FALSE, allow_extension_change |-> TRUE, create_backup |-> FALSE]

\* A BaseFile: _state (adding, changing, renaming), _actions, the attributes
\* validate() looks at (save_to, content: whether _content is set), id
\* (whether set), and _naming (on_conflict_rename, previous_saved_extension).
BaseFile_init(state, acts, ext, prev, saveTo, hasContent, hasId) ==
    [adding |-> state[1], changing |-> state[2], renaming |-> state[3],
     actions |-> acts, filename |-> "a", extension |-> ext,
     save_to |-> saveTo, content |-> hasContent, id |-> hasId,
     on_conflict_rename |-> FALSE, previous_saved_extension |-> prev]

\* The file object, storage.files (content at the path of each filename in
\* save_to), storage.backup (a backup copy was made), storage.hash_files (the
\* hash files were saved), and the two class-level dicts of FileNaming.
World(f, files, reserved) ==
    [file |-> f,
     storage |-> [files |-> files, backup |-> FALSE, hash_files |-> FALSE],
     reserved_filenames |-> reserved,
     reserved_index |-> {n \in Filenames : reserved[n] = "self"}]

Done(w) == [w |-> w, exc |-> None]
Failed(w, e) == [w |-> w, exc |-> e]

\* BaseFile.validate; a filename is always set and the mimetype is taken to
\* admit the extension.
validate(f) ==
    IF f.save_to = None THEN "ValidationError"
    ELSE IF ~f.content THEN "ValidationError"
    ELSE None

\* self.storage.exists(self.sanitize_path)
file_exists(w) == w.storage.files[w.file.filename] # "none"

not_allowed_but_rename_over_existing(f, exists, o) ==
    \/ f.adding /\ exists /\ ~o.overwrite
    \/ ~f.adding /\ f.changing /\ ~(o.allow_update \/ o.create_backup)
    \/ /\ f.renaming
       /\ f.previous_saved_extension # None
       /\ f.previous_saved_extension # f.extension
       /\ ~o.allow_extension_change

\* The four checks of save() that raise OperationNotAllowed.
not_allowed(f, exists, o) ==
    \/ f.adding /\ exists /\ ~o.overwrite
    \/ ~f.adding /\ f.changing /\ ~(o.allow_update \/ o.create_backup)
    \/ f.renaming /\ exists /\ ~(o.allow_rename \/ o.overwrite)
    \/ /\ f.renaming
       /\ f.previous_saved_extension # None
       /\ f.previous_saved_extension # f.extension
       /\ ~o.allow_extension_change

\* The name the rename pipeline gives a file whose name is taken.
NewName(filename) == "a (1)"

\* The complete_filename setter, as the rename pipeline calls it: the name
\* changes and, for a file saved before, to_rename() is called
\* (remove_reserved_filename finds nothing to remove: the old name is held
\* by another object).
set_complete_filename(f, name) ==
    IF name = f.filename THEN f
    ELSE [f EXCEPT !.filename = name,
                   !.actions = IF f.adding THEN @ ELSE to_rename(@)]

\* FileNaming.rename, name reserved for another object: ReservedFilenameError
\* unless on_conflict_rename, else the rename pipeline runs; the ledger keeps
\* the other object's entry and the index gets an entry under the old name.
rename_reserved(w) ==
    IF ~w.file.on_conflict_rename THEN Failed(w, "ReservedFilenameError")
    ELSE Done([w EXCEPT !.file = set_complete_filename(@, NewName(@.filename)),
                        !.reserved_index = @ \cup {w.file.filename}])

\* FileNaming.rename, name free or already held by this file: it is reserved
\* for this file and indexed.
rename_free(w) ==
    Done([w EXCEPT !.reserved_filenames[w.file.filename] = "self",
                   !.reserved_index = @ \cup {w.file.filename}])

\* FileNaming.rename
rename(w) ==
    IF w.reserved_filenames[w.file.filename] = "other" THEN rename_reserved(w)
    ELSE rename_free(w)

\* save(): self._naming.on_conflict_rename = allow_rename; self._naming.rename()
save_rename(w, o) ==
    IF w.file.renaming THEN rename([w EXCEPT !.file.on_conflict_rename = o.allow_rename])
    ELSE Done(w)

\* save(): self.storage.backup(self.sanitize_path)
save_backup(w, o, failAt) ==
    IF w.file.changing /\ o.create_backup
    THEN IF failAt = "backup" THEN Failed(w, "OSError")
         ELSE Done([w EXCEPT !.storage.backup = TRUE])
    ELSE Done(w)

\* save(): self.write_content(self.sanitize_path)
write_content(w, failAt) ==
    IF w.file.adding \/ w.file.changing
    THEN IF failAt = "save_file" THEN Failed(w, "OSError")
         ELSE Done([w EXCEPT !.storage.files[w.file.filename] = "new"])
    ELSE Done(w)

\* BaseFile.generate_hashes: the hasher pipeline runs and hashed() is called
\* when a hash is pending.
generate_hashes(f) == IF f.actions.hash THEN [f EXCEPT !.actions = hashed(@)] ELSE f

\* save(): self.generate_hashes(...); self.hashes.save(overwrite=True)
save_hashes(w, o, failAt) ==
    IF o.save_hashes
    THEN IF failAt = "hashes.save"
         THEN Failed([w EXCEPT !.file = generate_hashes(@)], "OSError")
         ELSE Done([w EXCEPT !.file = generate_hashes(@), !.storage.hash_files = TRUE])
    ELSE Done(w)

\* save(): self.id = self.storage.get_path_id(self.sanitize_path)
save_id(w, failAt) ==
    IF ~w.file.id
    THEN IF failAt = "get_path_id" THEN Failed(w, "OSError")
         ELSE Done([w EXCEPT !.file.id = TRUE])
    ELSE Done(w)

\* save(): the closing updates of _actions, _state and _naming.
save_status(w) ==
    Done([w EXCEPT !.file.actions = renamed(saved(@)),
                   !.file.adding = FALSE, !.file.changing = FALSE, !.file.renaming = FALSE,
                   !.file.previous_saved_extension = w.file.extension])

\* The steps of save() in the order of the code; a step that raised ends it.
save_from_id(r, failAt) == IF r.exc # None THEN r ELSE save_status(r.w)
save_from_hashes(r, failAt) ==
    IF r.exc # None THEN r ELSE save_from_id(save_id(r.w, failAt), failAt)
save_from_write(r, o, failAt) ==
    IF r.exc # None THEN r ELSE save_from_hashes(save_hashes(r.w, o, failAt), failAt)
save_from_backup(r, o, failAt) ==
    IF r.exc # None THEN r ELSE save_from_write(write_content(r.w, failAt), o, failAt)
save_from_rename(r, o, failAt) ==
    IF r.exc # None THEN r ELSE save_from_backup(save_backup(r.w, o, failAt), o, failAt)

\* BaseFile.save(**options); failAt names the storage call that raises, if any.
save(w, o, failAt) ==
    IF validate(w.file) # None THEN Failed(w, validate(w.file))
    ELSE IF not_allowed(w.file, file_exists(w), o) THEN Failed(w, "OperationNotAllowed")
    ELSE save_from_rename(save_rename(w, o), o, failAt)

\* The content setter with a non-empty value.
set_content(f) ==
    [f EXCEPT !.content = TRUE,
              !.changing = IF ~f.adding /\ f.content THEN TRUE ELSE @,
              !.actions = to_hash(to_save(@))]

Parts == {"files", "backup", "hash_files", "_state", "_actions", "ledger", "attributes"}

\* The attributes of a file other than _state and _actions.
Attributes(f) ==
    [f EXCEPT !.adding = FALSE, !.changing = FALSE, !.renaming = FALSE,
              !.actions = FileActionsDefaults]

\* The parts of the world that differ between w and v: what the storage
\* holds, the backup, the hash files, _state, _actions, the two dicts of
\* FileNaming, and the other attributes of the file and its _naming.
Touched(w, v) ==
    {p \in Parts :
        \/ p = "files" /\ w.storage.files # v.storage.files
        \/ p = "backup" /\ w.storage.backup # v.storage.backup
        \/ p = "hash_files" /\ w.storage.hash_files # v.storage.hash_files
        \/ p = "_state" /\ <<w.file.adding, w.file.changing, w.file.renaming>>
                               # <<v.file.adding, v.file.changing, v.file.renaming>>
        \/ p = "_actions" /\ w.file.actions # v.file.actions
        \/ p = "ledger" /\ (\/ w.reserved_filenames # v.reserved_filenames
                            \/ w.reserved_index # v.reserved_index)
        \/ p = "attributes" /\ Attributes(w.file) # Attributes(v.file)}

\* The refusal cases of save() as its documentation lists them.
CasesHeld(f, exists, o) ==
    {c \in 1..4 :
        \/ c = 1 /\ f.adding /\ exists /\ ~o.overwrite
        \/ c = 2 /\ ~f.adding /\ f.changing /\ ~o.allow_update /\ ~o.create_backup
        \/ c = 3 /\ f.renaming /\ exists /\ ~o.allow_rename /\ ~o.overwrite
        \/ c = 4 /\ f.renaming /\ f.previous_saved_extension # f.extension
                 /\ ~o.allow_extension_change}

\* Files as BaseFile(**kwargs) builds them: _state, _actions and _naming may
\* be given (a deserialized file), as may save_to, the content and the id.
SaveInit ==
    /\ \E state \in [1..3 -> BOOLEAN],
          named \in {<<"txt", None>>, <<"txt", "txt">>, <<"md", "txt">>},
          saveTo \in {None, "dir"}, hasContent \in BOOLEAN, hasId \in BOOLEAN,
          onDisk \in {"none", "old"}, holder \in {"nobody", "other"} :
          world = World(BaseFile_init(state, FileActionsDefaults, named[1], named[2],
                                      saveTo, hasContent, hasId),
                        [n \in Filenames |-> IF n = "a" THEN onDisk ELSE "none"],
                        [n \in Filenames |-> IF n = "a" THEN holder ELSE "nobody"])
    /\ touched = {}
    /\ cases = {}
    /\ valid = FALSE
    /\ saves = 0
    /\ sop = "init"
    /\ sexc = None
    /\ previous = None

SaveIdle ==
    /\ world = World(BaseFile_init(<<TRUE, FALSE, FALSE>>, FileActionsDefaults, "txt", None,
                                   None, FALSE, FALSE),
                     [n \in Filenames |-> "none"], [n \in Filenames |-> "nobody"])
    /\ touched = {}
    /\ cases = {}
    /\ valid = FALSE
    /\ saves = 0
    /\ sop = "init"
    /\ sexc = None
    /\ previous = None

\* file.save(**options)
Save ==
    /\ saves < MaxSaves
    /\ \E o \in SaveOptions, failAt \in FailPoints :
        \E r \in {save(world, o, failAt)} :
           /\ world' = r.w
           /\ sexc' = r.exc
           /\ touched' = Touched(world, r.w)
           /\ cases' = CasesHeld(world.file, file_exists(world), o)
    /\ valid' = (validate(world.file) = None)
    /\ previous' = world.file.previous_saved_extension
    /\ saves' = saves + 1
    /\ sop' = "save"
    /\ UNCHANGED exceptSave

\* file.content = value
SetContent ==
    /\ saves < MaxSaves
    /\ sop # "content"
    /\ world' = [world EXCEPT !.file = set_content(@)]
    /\ touched' = Touched(world, world')
    /\ sop' = "content"
    /\ sexc' = None
    /\ UNCHANGED <<saves, cases, valid, previous>>
    /\ UNCHANGED exceptSave

SaveNext == Save \/ SetContent

(***************************************************************************)
(* Renamers (src/filejacket/pipelines/renamer.py) and BaseRenamer.process  *)
(* (src/filejacket/pipelines/base.py)                                      *)
(***************************************************************************)

\* Bound: the enumerations n of the filenames "photo (n)" / "photo - n" that
\* may exist or be reserved beforehand.
MaxEnumeration == 2

\* Bound: how many UUID candidates in a row may collide.
MaxCollisions == 101

\* The number of tries of UniqueRenamer.get_name.
MaxAttempts == 100

\* A filename is the base "photo" followed by enumerations: << >> is "photo",
\* <<1>> is "photo (1)" (Windows) or "photo - 1" (Linux), <<2, 2>> is
\* "photo (2) (2)" or "photo - 2 - 2".  The extension is "jpg" throughout.
FirstNames == {<< >>} \cup {<<n>> : n \in 1..MaxEnumeration}

Styles == {"windows", "linux", "unique"}
Storages == {"A", "B"}

\* enumeration_pattern.sub(replacement, filename); i = 0 stands for the empty
\* replacement, i > 0 for " (i)" or " - i".  The pattern matches a trailing
\* enumeration and, again, the empty string at the end of the name, and sub
\* replaces both matches.
enumeration_sub(filename, i) ==
    IF filename = << >> THEN (IF i = 0 THEN << >> ELSE <<i>>)
    ELSE IF i = 0 THEN SubSeq(filename, 1, Len(filename) - 1)
    ELSE SubSeq(filename, 1, Len(filename) - 1) \o <<i, i>>

is_name_reserved_never(cls, filename) == FALSE

\* BaseRenamer.is_name_reserved
is_name_reserved(cls, filename) == filename \in cls.reserved_names

\* The while loop of WindowsRenamer.get_name / LinuxRenamer.get_name; exists
\* is what the storage of cls.file_system_handler holds.
RECURSIVE get_name_loop(_, _, _, _)
get_name_loop(cls, exists, filename, i) ==
    IF filename \in exists \/ is_name_reserved(cls, filename)
    THEN get_name_loop(cls, exists, enumeration_sub(filename, i + 1), i + 1)
    ELSE filename

\* WindowsRenamer.get_name
WindowsRenamer_get_name(cls, exists, filename) ==
    get_name_loop(cls, exists, enumeration_sub(filename, 0), 0)

\* LinuxRenamer.get_name
LinuxRenamer_get_name(cls, exists, filename) ==
    get_name_loop(cls, exists, enumeration_sub(filename, 0), 0)

\* The while loop of UniqueRenamer.get_name, where the first collisions
\* candidates collide and the next one is free: the value of i it ends with.
RECURSIVE unique_loop(_, _)
unique_loop(i, collisions) ==
    IF i < collisions /\ i < MaxAttempts THEN unique_loop(i + 1, collisions) ELSE i

unique_result_never_raises(i) == [exc |-> None, name |-> << >>, candidate |-> i]

\* UniqueRenamer.get_name after its loop: candidate i is returned unless i = 100.
unique_result(i) ==
    IF i = MaxAttempts THEN [exc |-> "BlockingIOError", name |-> << >>, candidate |-> i]
    ELSE [exc |-> None, name |-> << >>, candidate |-> i]

\* UniqueRenamer.get_name
UniqueRenamer_get_name(collisions) == unique_result(unique_loop(0, collisions))

\* cls.get_name(path, filename, extension), cls being the renamer class in use.
get_name(cls, exists, filename, collisions) ==
    CASE cls.style = "windows" ->
           [exc |-> None, name |-> WindowsRenamer_get_name(cls, exists, filename), candidate |-> 0]
      [] cls.style = "linux" ->
           [exc |-> None, name |-> LinuxRenamer_get_name(cls, exists, filename), candidate |-> 0]
      [] cls.style = "unique" -> UniqueRenamer_get_name(collisions)

\* process: a non-empty reserved_names argument replaces the list of the class.
process_reserved(cls, reserved_names) ==
    IF reserved_names # {} THEN [cls EXCEPT !.reserved_names = reserved_names] ELSE cls

process_keeps_handler(cls, storage) == cls

\* process: cls.file_system_handler = object_to_process.storage
process_handler(cls, storage) == [cls EXCEPT !.file_system_handler = storage]

\* process after get_name returned or raised (r): the handler saved before
\* (handler) is put back only when get_name returned.  used is the class as
\* get_name saw it.
process_named(cls, handler, r) ==
    IF r.exc # None THEN [cls |-> cls, r |-> r, used |-> cls]
    ELSE [cls |-> [cls EXCEPT !.file_system_handler = handler], r |-> r, used |-> cls]

\* process with the class prepared (cls) and the handler saved before.
process_get_name(cls, handler, exists, filename, collisions) ==
    process_named(cls, handler,
                  get_name(cls, exists[cls.file_system_handler], filename, collisions))

\* BaseRenamer.process(object_to_process=..., reserved_names=...)
process(cls, exists, storage, filename, reserved_names, collisions) ==
    process_get_name(process_handler(process_reserved(cls, reserved_names), storage),
                     process_reserved(cls, reserved_names).file_system_handler,
                     exists, filename, collisions)

NoCall ==
    [op |-> "init", filename |-> << >>, storage |-> "A",
     supplied |-> {}, handlerBefore |-> "A", reservedBefore |-> {},
     usedHandler |-> "A", usedReserved |-> {},
     exc |-> None, name |-> << >>, candidate |-> 0, collisions |-> 0]

\* What the storages hold at first: some of the first names in storage A, and
\* nothing or "photo.jpg" in storage B.  UUID names are not among them, and
\* their collisions are an input of each call.
StoragesFor(style) ==
    IF style = "unique" THEN {[s \in Storages |-> {}]}
    ELSE {[s \in Storages |-> IF s = "A" THEN inA ELSE inB] :
             inA \in SUBSET FirstNames, inB \in {{}, {<< >>}}}

\* One renamer class as first loaded: StorageEngine as handler (storage A),
\* no reserved names.
RenamerInit ==
    /\ \E style \in Styles :
          /\ renamer = [style |-> style, file_system_handler |-> "A", reserved_names |-> {}]
          /\ storages \in StoragesFor(style)
    /\ rcall = NoCall

RenamerIdle ==
    /\ renamer = [style |-> "windows", file_system_handler |-> "A", reserved_names |-> {}]
    /\ storages = [s \in Storages |-> {}]
    /\ rcall = NoCall

\* The filenames given to a renamer; UniqueRenamer ignores the one it is given.
FilenamesFor(style) == IF style = "unique" THEN {<< >>} ELSE FirstNames

\* How many UUID candidates collide in a row, for a direct call of get_name
\* and for a call through process.
CollisionsOf(style) == IF style = "unique" THEN 0..MaxCollisions ELSE {0}
CollisionsInProcess(style) == IF style = "unique" THEN {0, MaxAttempts} ELSE {0}

\* cls.get_name("dir", filename, "jpg") called on the class itself.
GetName ==
    \E filename \in FilenamesFor(renamer.style), collisions \in CollisionsOf(renamer.style) :
        \E r \in {get_name(renamer, storages[renamer.file_system_handler],
                           filename, collisions)} :
           /\ rcall' = [op |-> "get_name", filename |-> filename,
                        storage |-> renamer.file_system_handler, supplied |-> {},
                        handlerBefore |-> renamer.file_system_handler,
                        reservedBefore |-> renamer.reserved_names,
                        usedHandler |-> renamer.file_system_handler,
                        usedReserved |-> renamer.reserved_names,
                        exc |-> r.exc, name |-> r.name, candidate |-> r.candidate,
                        collisions |-> collisions]
           /\ UNCHANGED <<renamer, storages>>
           /\ UNCHANGED exceptRenamer

\* cls.process(object_to_process=file, reserved_names=...) for a file named
\* filename kept in storage.
Process ==
    \E filename \in FilenamesFor(renamer.style), storage \in Storages,
       supplied \in {{}} \cup {{n} : n \in FirstNames},
       collisions \in CollisionsInProcess(renamer.style) :
        \E p \in {process(renamer, storages, storage, filename, supplied, collisions)} :
           /\ renamer' = p.cls
           /\ rcall' = [op |-> "process", filename |-> filename,
                        storage |-> storage, supplied |-> supplied,
                        handlerBefore |-> renamer.file_system_handler,
                        reservedBefore |-> renamer.reserved_names,
                        usedHandler |-> p.used.file_system_handler,
                        usedReserved |-> p.used.reserved_names,
                        exc |-> p.r.exc, name |-> p.r.name, candidate |-> p.r.candidate,
                        collisions |-> collisions]
           /\ UNCHANGED storages
           /\ UNCHANGED exceptRenamer

RenamerNext == GetName \/ Process

(***************************************************************************)
(* BaseHasher.load_from_file (src/filejacket/pipelines/base.py)            *)
(***************************************************************************)

\* Bound: the number of lines of a checksum file.
MaxLines == 2

Digests == {"d1", "d2"}
\* A checksum file that does not exist, and one that holds the given lines.
Absent == [exists |-> FALSE, lines |-> << >>]
Holding(lines) == [exists |-> TRUE, lines |-> lines]

\* A line of a checksum file, as load_from_file tells lines apart: a comment
\* (first character ";" or "#"), a line that holds the path of the file
\* relative to the checksum file, or a line that holds its name only.
ManifestLines ==
    {[kind |-> "comment", digest |-> "d1"]}
        \cup [kind : {"path", "name"}, digest : Digests]

\* The four names load_from_file always looks for in directory_path (hasher
\* md5, file photo.jpg, directory dir), and one more checksum file that only
\* list_files("*.md5") brings in.
StandardFiles == {"photo.jpg.md5", "photo.md5", "CHECKSUM.md5", "dir.md5"}
ListedFiles == StandardFiles \cup {"extra.md5"}

\* files_to_check, given full_check or full_loop_check
files_to_check(manifest, full_check) ==
    IF full_check THEN StandardFiles \cup {f \in ListedFiles : manifest[f] # Absent}
    ELSE StandardFiles

\* The files of files_to_check that exist: the others are passed over.
existing(manifest, full_check) ==
    {f \in files_to_check(manifest, full_check) : manifest[f] # Absent}

\* The orders in which `for file_path in set(files_to_check)` may visit the
\* existing files: the iteration order of a set of strings is not fixed.
Orders(files) ==
    {o \in [1..Cardinality(files) -> files] :
        \A i, j \in 1..Cardinality(files) : o[i] = o[j] => i = j}

\* The loop over the lines of one checksum file, from line k on: the digest
\* of the first line holding the path ends it (found), a line holding the
\* name only adds a candidate.
RECURSIVE read_lines(_, _, _)
read_lines(lines, k, candidates) ==
    IF k > Len(lines) THEN [found |-> None, candidates |-> candidates]
    ELSE IF lines[k].kind = "comment" THEN read_lines(lines, k + 1, candidates)
    ELSE IF lines[k].kind = "path" THEN [found |-> lines[k].digest, candidates |-> candidates]
    ELSE read_lines(lines, k + 1, Append(candidates, lines[k].digest))

\* What load_from_file does with one checksum file once its lines are read.
check_candidates(file_path, scan) ==
    IF scan.found # None THEN [exc |-> None, digest |-> scan.found, file |-> file_path]
    ELSE IF Len(scan.candidates) > 1
    THEN IF Cardinality({scan.candidates[i] : i \in 1..Len(scan.candidates)}) = 1
         THEN [exc |-> None, digest |-> scan.candidates[1], file |-> file_path]
         ELSE [exc |-> "MultipleFileExistError", digest |-> None, file |-> None]
    ELSE IF Len(scan.candidates) = 1
    THEN [exc |-> None, digest |-> scan.candidates[1], file |-> file_path]
    ELSE [exc |-> "continue", digest |-> None, file |-> None]

\* The loop over the files to check, from the k-th of order on.
RECURSIVE check_files(_, _, _)
check_files_after(manifest, order, k, r) ==
    IF r.exc = "continue" THEN check_files(manifest, order, k + 1) ELSE r

check_files(manifest, order, k) ==
    IF k > Len(order) THEN [exc |-> "FileNotFoundError", digest |-> None, file |-> None]
    ELSE check_files_after(manifest, order, k,
             check_candidates(order[k], read_lines(manifest[order[k]].lines, 1, << >>)))

\* BaseHasher.load_from_file("dir", "photo", "jpg", full_check): the cached
\* pair if the directory is cached, else what the checksum files give.
load_from_file(entry, manifest, order) ==
    IF entry # None
    THEN [exc |-> None, digest |-> entry[1], file |-> entry[2]]
    ELSE check_files(manifest, order, 1)

\* hash_directories[directory_path] after the call.
cached_after(entry, r) ==
    IF entry = None /\ r.exc = None THEN <<r.digest, r.file>> ELSE entry

ManifestContents ==
    {Holding(lines) : lines \in UNION {[1..n -> ManifestLines] : n \in 0..MaxLines}}

NoLoad ==
    [op |-> "init", full_check |-> FALSE, fromCache |-> FALSE,
     exc |-> None, digest |-> None, file |-> None]

\* A directory with up to two of the standard checksum files and possibly
\* one more, and nothing cached.
HasherInit ==
    /\ \E byName, checksum \in ManifestContents \cup {Absent},
          extra \in {Absent} \cup {Holding(<<[kind |-> "name", digest |-> g]>>) : g \in Digests} :
          manifests = [f \in ListedFiles |->
                          CASE f = "photo.jpg.md5" -> byName
                            [] f = "CHECKSUM.md5" -> checksum
                            [] f = "extra.md5" -> extra
                            [] OTHER -> Absent]
    /\ hash_digested_values = None
    /\ hcall = NoLoad

HasherIdle ==
    /\ manifests = [f \in ListedFiles |-> Absent]
    /\ hash_digested_values = None
    /\ hcall = NoLoad

\* cls.load_from_file("dir", "photo", "jpg", full_check=...)
LoadFromFile ==
    \E full_check \in BOOLEAN :
      \E order \in Orders(existing(manifests, full_check)) :
        \E r \in {load_from_file(hash_digested_values, manifests, order)} :
           /\ hash_digested_values' = cached_after(hash_digested_values, r)
           /\ hcall' = [op |-> "load_from_file", full_check |-> full_check,
                        fromCache |-> hash_digested_values # None,
                        exc |-> r.exc, digest |-> r.digest, file |-> r.file]
           /\ UNCHANGED manifests
           /\ UNCHANGED exceptHasher

HasherNext == LoadFromFile

(***************************************************************************)
(* FileDictionarySerializer and its transmuters                            *)
(* (src/filejacket/serializer/specific.py)                                 *)
(***************************************************************************)

\* Bound: the number of bytes of a file's content.
MaxBytes == 2

ByteValues == {0, 77, 255}

\* The padding character "=" of base64, next to the 64 digits 0..63.
Pad == 64

\* b64encode of the bytes from position k on: three bytes give four digits,
\* one or two left over give two or three digits and padding.
RECURSIVE b64encode(_, _)
b64encode(bytes, k) ==
    IF k > Len(bytes) THEN << >>
    ELSE IF k = Len(bytes)
    THEN <<bytes[k] \div 4, (bytes[k] % 4) * 16, Pad, Pad>>
    ELSE IF k + 1 = Len(bytes)
    THEN <<bytes[k] \div 4, (bytes[k] % 4) * 16 + bytes[k + 1] \div 16,
           (bytes[k + 1] % 16) * 4, Pad>>
    ELSE <<bytes[k] \div 4, (bytes[k] % 4) * 16 + bytes[k + 1] \div 16,
           (bytes[k + 1] % 16) * 4 + bytes[k + 2] \div 64, bytes[k + 2] % 64>>
            \o b64encode(bytes, k + 3)

\* b64decode of the digits from position k on.
RECURSIVE b64decode(_, _)
b64decode(digits, k) ==
    IF k > Len(digits) THEN << >>
    ELSE IF digits[k + 2] = Pad
    THEN <<digits[k] * 4 + digits[k + 1] \div 16>>
    ELSE IF digits[k + 3] = Pad
    THEN <<digits[k] * 4 + digits[k + 1] \div 16,
           (digits[k + 1] % 16) * 16 + digits[k + 2] \div 4>>
    ELSE <<digits[k] * 4 + digits[k + 1] \div 16,
           (digits[k + 1] % 16) * 16 + digits[k + 2] \div 4,
           (digits[k + 2] % 4) * 64 + digits[k + 3]>>
            \o b64decode(digits, k + 4)

\* The attributes of FileDictionarySerializer.transmuters that are followed
\* here: two raw values, the packet and the content.  The others (storage,
\* the pipelines, the control objects) are taken to be set and to convert
\* back and forth without loss.
RawAttributes == {"id", "length"}
Transmuters == RawAttributes \cup {"_content_files", "_content"}

SerializerKinds == {"FileDictionarySerializer", "FileWithContentDictionarySerializer"}

\* The keys of the internal files of a packet: one of one character, one of two.
EntryKeys == {"a", "ab"}
KeyLen(key) == IF key = "a" THEN 1 ELSE 2

\* The attributes of the file that are not None: serialize leaves the others out.
Given(file) ==
    {a \in RawAttributes : file.attrs[a] # None}
        \cup (IF file.has_packet THEN {"_content_files"} ELSE {})
        \cup (IF file.has_content THEN {"_content"} ELSE {})

\* FileDictionarySerializer.serialize
serialize(file) ==
    [made |-> TRUE, kind |-> file.kind, keys |-> Given(file), attrs |-> file.attrs,
     internal_files |-> file.internal_files,
     content_base64 |-> IF file.kind = "FileWithContentDictionarySerializer" /\ file.has_content
                        THEN b64encode(file.bytes, 1) ELSE << >>]

\* TransmuterContentFiles.to_data: `for key, value in value["internal_files"]`
\* goes over the keys of the dictionary and unpacks each key, a string, into
\* two names; a key of two characters unpacks and its second character is
\* then handed to deserialize.
TransmuterContentFiles_to_data(data) ==
    {IF KeyLen(key) = 2 THEN "AttributeError" ELSE "ValueError" : key \in data.internal_files}

\* TransmuterContentBase64.to_data: decodes content_base64, then calls the
\* name of the cache class, a string, at line 693.
TransmuterContentBase64_to_data(data) ==
    [decoded |-> b64decode(data.content_base64, 1), exc |-> "TypeError"]

\* What the dictionary comprehension of deserialize can raise: data[attribute]
\* for an attribute that was left out, and what to_data raises for the packet
\* and for the content.  The comprehension goes over a set, in no fixed order.
deserialize_errors(data) ==
    (IF Transmuters \ data.keys # {} THEN {"KeyError"} ELSE {})
        \cup (IF "_content_files" \in data.keys THEN TransmuterContentFiles_to_data(data) ELSE {})
        \cup (IF "_content" \in data.keys /\ data.kind = "FileWithContentDictionarySerializer"
              THEN {TransmuterContentBase64_to_data(data).exc} ELSE {})

\* The file built by file_object.__init__(**kwargs) when nothing was raised.
deserialize_built(data) ==
    [op |-> "deserialize", exc |-> None, attrs |-> data.attrs,
     has_packet |-> "_content_files" \in data.keys, internal_files |-> data.internal_files,
     has_content |-> "_content" \in data.keys, bytes |-> << >>]

deserialize_raised(e) ==
    [op |-> "deserialize", exc |-> e, attrs |-> [a \in RawAttributes |-> None],
     has_packet |-> FALSE, internal_files |-> {}, has_content |-> FALSE, bytes |-> << >>]

\* FileDictionarySerializer.deserialize: the outcomes it can have.
deserialize_outcomes(data, raising) ==
    IF raising = {} THEN {deserialize_built(data)}
    ELSE {deserialize_raised(e) : e \in raising}

deserialize(data) == deserialize_outcomes(data, deserialize_errors(data))

NotSerialized ==
    [made |-> FALSE, kind |-> "FileDictionarySerializer", keys |-> {},
     attrs |-> [a \in RawAttributes |-> None], internal_files |-> {}, content_base64 |-> << >>]

NotRestored ==
    [op |-> "none", exc |-> None, attrs |-> [a \in RawAttributes |-> None],
     has_packet |-> FALSE, internal_files |-> {}, has_content |-> FALSE, bytes |-> << >>]

FileContents == UNION {[1..n -> ByteValues] : n \in 0..MaxBytes}

\* A file to serialize: each raw attribute set or None, a packet with some
\* internal files or none, a content or none, and one of the two serializers.
SerializerInit ==
    /\ \E kind \in SerializerKinds, attrs \in [RawAttributes -> {None, "v"}],
          has_packet, has_content \in BOOLEAN,
          internal_files \in SUBSET EntryKeys, bytes \in FileContents :
          /\ ~has_packet => internal_files = {}
          /\ ~has_content => bytes = << >>
          /\ original = [kind |-> kind, attrs |-> attrs, has_packet |-> has_packet,
                       internal_files |-> internal_files,
                       has_content |-> has_content, bytes |-> bytes]
    /\ serialized = NotSerialized
    /\ restored = NotRestored

SerializerIdle ==
    /\ original = [kind |-> "FileDictionarySerializer", attrs |-> [a \in RawAttributes |-> None],
                 has_packet |-> FALSE, internal_files |-> {},
                 has_content |-> FALSE, bytes |-> << >>]
    /\ serialized = NotSerialized
    /\ restored = NotRestored

\* data = Serializer.serialize(original)
Serialize ==
    /\ ~serialized.made
    /\ serialized' = serialize(original)
    /\ UNCHANGED <<original, restored>>
    /\ UNCHANGED exceptSerializer

\* Serializer.deserialize(data)
Deserialize ==
    /\ serialized.made
    /\ restored' \in deserialize(serialized)
    /\ UNCHANGED <<original, serialized>>
    /\ UNCHANGED exceptSerializer

SerializerNext == Serialize \/ Deserialize

(***************************************************************************)
(* BaseFile rich comparisons and compare_to                                *)
(* (src/handler/file/__init__.py)                                          *)
(***************************************************************************)

\* Bound: the length in bytes of a compared file.
MaxLength == 1

\* The attribute length of a file: None, or a number of bytes.
Lengths == {[given |-> FALSE, bytes |-> 0]} \cup [given : {TRUE}, bytes : 0..MaxLength]

PyBool(b) == IF b THEN PyTrue ELSE PyFalse

\* What an operator did: whether the compare pipeline was run, and the
\* exception raised or the value returned.
Outcome(ran_pipeline, e, v) == [ran_pipeline |-> ran_pipeline, exc |-> e, val |-> v]

\* len(self) < len(other_instance) and len(self) > len(other_instance): __len__
\* returns self.length, and len() raises TypeError for None.
BaseFile_lt(self_length, other_length) ==
    IF ~self_length.given \/ ~other_length.given THEN Outcome(FALSE, "TypeError", PyNone)
    ELSE Outcome(FALSE, None, PyBool(self_length.bytes < other_length.bytes))

BaseFile_gt(self_length, other_length) ==
    IF ~self_length.given \/ ~other_length.given THEN Outcome(FALSE, "TypeError", PyNone)
    ELSE Outcome(FALSE, None, PyBool(self_length.bytes > other_length.bytes))

\* BaseFile.compare_to(other), the run of compare_pipeline ending with last_result
compare_to(pipeline_result) ==
    IF pipeline_result = PyNone THEN Outcome(TRUE, "ValueError", PyNone)
    ELSE Outcome(TRUE, None, pipeline_result)

BaseFile_eq_lets_error_out(pipeline_result) == compare_to(pipeline_result)

\* BaseFile.__eq__: compare_to(other) or False, and False on ValueError
BaseFile_eq(pipeline_result) ==
    IF compare_to(pipeline_result).exc = "ValueError" THEN Outcome(TRUE, None, PyFalse)
    ELSE IF Truthy(compare_to(pipeline_result).val)
    THEN Outcome(TRUE, None, compare_to(pipeline_result).val)
    ELSE Outcome(TRUE, None, PyFalse)

\* BaseFile.__ne__: not self.__eq__(other)
BaseFile_ne(pipeline_result) ==
    Outcome(TRUE, None, PyBool(~Truthy(BaseFile_eq(pipeline_result).val)))

\* a or b, a being the outcome of __lt__ / __gt__: b is evaluated only when a
\* returned a false value.
or_eq(first, pipeline_result) ==
    IF first.exc # None \/ Truthy(first.val) THEN first ELSE BaseFile_eq(pipeline_result)

\* BaseFile.__le__ and BaseFile.__ge__
BaseFile_le(self_length, other_length, pipeline_result) ==
    or_eq(BaseFile_lt(self_length, other_length), pipeline_result)

BaseFile_ge(self_length, other_length, pipeline_result) ==
    or_eq(BaseFile_gt(self_length, other_length), pipeline_result)

Operators == {"<", "<=", "==", "!=", ">", ">="}

\* self <operator> other
rich_comparison(operator, self_length, other_length, pipeline_result) ==
    CASE operator = "<" -> BaseFile_lt(self_length, other_length)
      [] operator = "<=" -> BaseFile_le(self_length, other_length, pipeline_result)
      [] operator = "==" -> BaseFile_eq(pipeline_result)
      [] operator = "!=" -> BaseFile_ne(pipeline_result)
      [] operator = ">" -> BaseFile_gt(self_length, other_length)
      [] operator = ">=" -> BaseFile_ge(self_length, other_length, pipeline_result)

CompareInit ==
    \E self_length, other_length \in Lengths :
        compared = [self_length |-> self_length, other_length |-> other_length,
                    operator |-> "none", pipeline_result |-> PyNone,
                    outcome |-> Outcome(FALSE, None, PyNone)]

CompareIdle ==
    compared = [self_length |-> [given |-> FALSE, bytes |-> 0],
                other_length |-> [given |-> FALSE, bytes |-> 0],
                operator |-> "none", pipeline_result |-> PyNone,
                outcome |-> Outcome(FALSE, None, PyNone)]

\* self <operator> other, where the compare pipeline, if it is run, ends with
\* last_result = pipeline_result.
Compare ==
    \E operator \in Operators, pipeline_result \in {PyTrue, PyFalse, PyNone} :
        /\ compared' = [compared EXCEPT
                           !.operator = operator,
                           !.pipeline_result = pipeline_result,
                           !.outcome = rich_comparison(operator, compared.self_length,
                                                       compared.other_length, pipeline_result)]
        /\ UNCHANGED exceptCompare

CompareNext == Compare

(***************************************************************************)
(* BaseComparer.process over objects_to_compare                            *)
(* (src/filejacket/pipelines/base.py)                                      *)
(***************************************************************************)

\* Bound: the number of elements of objects_to_compare.
MaxCandidates == 4

\* What objects_to_compare may be: a list or a tuple of files, or something
\* else that holds files (a set, a generator), or None.
Containers == {"list", "tuple", "set", "generator", "None"}

\* What is_the_same returns for each element, in the order of the container.
CandidateVerdicts == UNION {[1..n -> Verdicts] : n \in 0..MaxCandidates}

comparer_return_as_bool(is_the_same, k) ==
    [exc |-> None, val |-> PyFalse, evaluated |-> k]

\* `return is_the_same` for the k-th element
comparer_return(is_the_same, k) ==
    [exc |-> None, val |-> is_the_same, evaluated |-> k]

\* for element in objects_to_compare, from the k-th element on
RECURSIVE comparer_loop(_, _)
comparer_loop(sames, k) ==
    IF k > Len(sames) THEN [exc |-> None, val |-> PyTrue, evaluated |-> Len(sames)]
    ELSE IF ~Truthy(sames[k]) THEN comparer_return(sames[k], k)
    ELSE comparer_loop(sames, k + 1)

\* BaseComparer.process(object_to_process=..., objects_to_compare=...), sames
\* being what is_the_same returns for the elements of objects_to_compare if
\* it is asked.
BaseComparer_process_objects(container, sames) ==
    IF sames = << >> \/ container \notin {"list", "tuple"}
    THEN [exc |-> "ValueError", val |-> PyNone, evaluated |-> 0]
    ELSE comparer_loop(sames, 1)

NotCompared ==
    [op |-> "none", container |-> "list", sames |-> << >>,
     exc |-> None, val |-> PyNone, evaluated |-> 0]

ComparerInit == comparing = NotCompared
ComparerIdle == comparing = NotCompared

\* cls.process(object_to_process=f, objects_to_compare=...)
ComparerProcess ==
    \E container \in Containers, sames \in CandidateVerdicts :
      \E r \in {BaseComparer_process_objects(container, sames)} :
        /\ container = "None" => sames = << >>
        /\ comparing' = [op |-> "process", container |-> container, sames |-> sames,
                         exc |-> r.exc, val |-> r.val, evaluated |-> r.evaluated]
        /\ UNCHANGED exceptComparer

ComparerNext == ComparerProcess

(***************************************************************************)
(* FileSystemDataExtracter.extract and MetadataExtracter.extract           *)
(* (src/handler/pipelines/extracter.py)                                    *)
(***************************************************************************)

\* Bound: the number of calls of extract on the file.
MaxExtracts == 2

\* Two of the fields both extracters save: id (from get_path_id or ETag) and
\* length (from get_size or Content-Length).
ExtractedFields == {"id", "length"}

\* The value of a field: None, a value that is false in a condition (0 or
\* ""), a value it had from elsewhere, the value the file system gives, or
\* the value the metadata give.
Unpopulated == {None, "falsy"}
FieldValues == Unpopulated \cup {"old", "file system", "metadata"}

\* What FileSystemDataExtracter.extract finds: a file, or the first check
\* that fails.
PathStatesFound == {"file", "no path", "no type", "missing", "directory"}

\* The kwargs of MetadataExtracter.extract: no metadata, or a dictionary with
\* some of the headers ETag and Content-Length.
Metadatas ==
    {[given |-> FALSE, headers |-> {}]}
        \cup [given : {TRUE}, headers : SUBSET {"ETag", "Content-Length"}]
NoMetadata == [given |-> FALSE, headers |-> {}]

HeaderOf(field) == IF field = "id" THEN "ETag" ELSE "Content-Length"

\* FileSystemDataExtracter.extract: the checks, then id and length taken from
\* the file system whatever overrider is.
FileSystemDataExtracter_extract(fields, found, overrider) ==
    CASE found = "no path" -> [exc |-> "ValueError", fields |-> fields]
      [] found = "no type" -> [exc |-> "ValueError", fields |-> fields]
      [] found = "missing" -> [exc |-> "IOError", fields |-> fields]
      [] found = "directory" -> [exc |-> "ValueError", fields |-> fields]
      [] found = "file" -> [exc |-> None, fields |-> [f \in ExtractedFields |-> "file system"]]

metadata_set_whenever_given(current, given, overrider) ==
    IF given THEN "metadata" ELSE current

\* `if etag and (not file_object.id or overrider): file_object.id = etag`,
\* and the same for length
metadata_set(current, given, overrider) ==
    IF given /\ (current \in Unpopulated \/ overrider) THEN "metadata" ELSE current

\* MetadataExtracter.extract: ValueError without metadata or with empty
\* metadata, else each field in turn.
MetadataExtracter_extract(fields, metadata, overrider) ==
    IF ~metadata.given \/ metadata.headers = {}
    THEN [exc |-> "ValueError", fields |-> fields]
    ELSE [exc |-> None,
          fields |-> [f \in ExtractedFields |->
                         metadata_set(fields[f], HeaderOf(f) \in metadata.headers, overrider)]]

NoExtract == [op |-> "none", found |-> "file", metadata |-> NoMetadata]

\* A file whose fields are unset or were set by something else.
ExtracterInit ==
    \E fields \in [ExtractedFields -> {None, "falsy", "old"}] :
        extraction = [fields |-> fields, before |-> fields, call |-> NoExtract,
                      overrider |-> FALSE, repeated |-> FALSE, exc |-> None, runs |-> 0]

ExtracterIdle ==
    extraction = [fields |-> [f \in ExtractedFields |-> None],
                  before |-> [f \in ExtractedFields |-> None], call |-> NoExtract,
                  overrider |-> FALSE, repeated |-> FALSE, exc |-> None, runs |-> 0]

\* The call has been made: repeated tells whether the call before it was of
\* the same extracter with the same inputs.
Extracted(call, overrider, r) ==
    extraction' = [fields |-> r.fields, before |-> extraction.fields, call |-> call,
                   overrider |-> overrider, repeated |-> (call = extraction.call),
                   exc |-> r.exc, runs |-> extraction.runs + 1]

\* FileSystemDataExtracter.extract(file_object, overrider)
ExtractFileSystem ==
    /\ extraction.runs < MaxExtracts
    /\ \E found \in PathStatesFound, overrider \in BOOLEAN :
          Extracted([op |-> "FileSystemDataExtracter", found |-> found, metadata |-> NoMetadata],
                    overrider,
                    FileSystemDataExtracter_extract(extraction.fields, found, overrider))
    /\ UNCHANGED exceptExtracter

\* MetadataExtracter.extract(file_object, overrider, metadata=...)
ExtractMetadata ==
    /\ extraction.runs < MaxExtracts
    /\ \E metadata \in Metadatas, overrider \in BOOLEAN :
          Extracted([op |-> "MetadataExtracter", found |-> "file", metadata |-> metadata],
                    overrider,
                    MetadataExtracter_extract(extraction.fields, metadata, overrider))
    /\ UNCHANGED exceptExtracter

ExtracterNext == ExtractFileSystem \/ ExtractMetadata

(***************************************************************************)
(* FilePacket (src/filejacket/file/content.py and the earlier              *)
(* src/handler/file/content.py)                                            *)
(***************************************************************************)

\* Bound: the number of calls made on a packet.
MaxPacketCalls == 4

PacketVariants == {"filejacket", "handler"}
PacketKeys == {"a.txt", "b.txt"}
PacketFiles == {"f1", "f2"}
NoEntry == "no entry"

\* A mapping _internal_files: for each name the file kept under it, or NoEntry.
EmptyMapping == [k \in PacketKeys |-> NoEntry]
IsEmptyMapping(mapping) == \A k \in PacketKeys : mapping[k] = NoEntry

\* len(value) of an internal file.
FileLength(value) == IF value = "f1" THEN 1 ELSE 2

\* FilePacket.__init__(): no entries, history None (the class attribute).
FilePacket_init(variant) ==
    [variant |-> variant, internal_files |-> EmptyMapping,
     history_is_none |-> TRUE, history |-> << >>, length |-> 0]

\* FilePacket.__setitem__(key, value); only filejacket keeps the length.
FilePacket_setitem(self, key, value) ==
    [self EXCEPT !.internal_files[key] = value,
                 !.length = IF self.variant = "filejacket" THEN @ + FileLength(value) ELSE @]

\* FilePacket.clean_history()
FilePacket_clean_history(self) == [self EXCEPT !.history_is_none = FALSE, !.history = << >>]

FilePacket_reset_forgets(self) ==
    [self EXCEPT !.history_is_none = FALSE, !.internal_files = EmptyMapping]

\* FilePacket.reset(): history becomes a list if it was None; filejacket
\* appends the mapping and puts a new one in its place only `if
\* self._internal_files`, handler always.
FilePacket_reset(self) ==
    IF self.variant = "filejacket" /\ IsEmptyMapping(self.internal_files)
    THEN [self EXCEPT !.history_is_none = FALSE]
    ELSE [self EXCEPT !.history_is_none = FALSE,
                      !.history = Append(self.history, self.internal_files),
                      !.internal_files = EmptyMapping]

PacketInit ==
    \E variant \in PacketVariants :
        packet = [now |-> FilePacket_init(variant), before |-> FilePacket_init(variant),
                  op |-> "init", calls |-> 0]

PacketIdle ==
    packet = [now |-> FilePacket_init("filejacket"), before |-> FilePacket_init("filejacket"),
              op |-> "init", calls |-> 0]

PacketCalled(name, after) ==
    packet' = [now |-> after, before |-> packet.now, op |-> name, calls |-> packet.calls + 1]

\* packet[key] = value
PacketSetItem ==
    /\ packet.calls < MaxPacketCalls
    /\ \E key \in PacketKeys, value \in PacketFiles :
          PacketCalled("setitem", FilePacket_setitem(packet.now, key, value))
    /\ UNCHANGED exceptPacket

\* packet.reset()
PacketReset ==
    /\ packet.calls < MaxPacketCalls
    /\ PacketCalled("reset", FilePacket_reset(packet.now))
    /\ UNCHANGED exceptPacket

\* packet.clean_history()
PacketCleanHistory ==
    /\ packet.calls < MaxPacketCalls
    /\ PacketCalled("clean_history", FilePacket_clean_history(packet.now))
    /\ UNCHANGED exceptPacket

PacketNext == PacketSetItem \/ PacketReset \/ PacketCleanHistory

(***************************************************************************)
(* FileActions(kwargs) and FileActions.__serialize__                     *)
(* (src/filejacket/file/action.py)                                         *)
(***************************************************************************)

\* hasattr(self, key): the flags and the methods are attributes of the class.
HasAttribute(key) == key \in FlagNames \cup ToMethods \cup DoneMethods

\* Keys a caller may pass: the flags, the name of a method, and a name that is
\* no attribute.
OtherKeys == {"to_save", "colour"}

\* The keyword arguments: flags of at most MaxKwargActions actions with any
\* boolean values, and at most one other key.
GivenKwargs ==
    UNION {[T \cup O -> BOOLEAN] :
             T \in {U \in SUBSET FlagNames :
                      Cardinality({a \in PendingFlags : a \in U \/ DoneOf(a) \in U})
                          <= MaxKwargActions},
             O \in {{}} \cup {{k} : k \in OtherKeys}}

\* FileActions.__init__(kwargs) with any keys: raises for a key that is no
\* attribute, else sets each key; a key that names a method hides the method.
FileActions_new(kw) ==
    IF \E key \in DOMAIN kw : ~HasAttribute(key)
    THEN [exc |-> "SerializerError", flags |-> FileActionsDefaults, hidden |-> {}]
    ELSE [exc |-> None, flags |-> FileActions_init(kw), hidden |-> DOMAIN kw \ FlagNames]

\* The set `attributes` of __serialize__, as it is written there.
SerializedAttributes ==
    {"extract", "hash", "list", "move", "preview", "rename", "save", "thumbnail",
     "was_extracted", "was_hashed", "was_listed", "was_moved", "was_previewed",
     "was_renamed", "was_saved", "was_thumbnailed"}

FileActions_serialize_pending_only(flags) ==
    [key \in SerializedAttributes \cap PendingFlags |-> flags[key]]

\* FileActions.__serialize__
FileActions_serialize(flags) == [key \in SerializedAttributes |-> flags[key]]

NotConstructed ==
    [op |-> "none", kw |-> [k \in {} |-> TRUE], exc |-> None, flags |-> FileActionsDefaults,
     hidden |-> {}, called |-> "", data |-> [k \in {} |-> TRUE]]

ConstructInit == constructed = NotConstructed
ConstructIdle == constructed = NotConstructed

\* obj = FileActions(kw)
Construct ==
    /\ constructed.op = "none"
    /\ \E kw \in GivenKwargs :
         \E r \in {FileActions_new(kw)} :
            constructed' = [constructed EXCEPT !.op = "init", !.kw = kw, !.exc = r.exc,
                                               !.flags = r.flags, !.hidden = r.hidden]
    /\ UNCHANGED exceptConstruct

\* One call of a to_X or done method on the object; a method hidden by a
\* keyword argument is a bool and calling it raises TypeError.
ConstructedCall ==
    /\ constructed.op = "init" /\ constructed.exc = None
    /\ \E m \in ToMethods \cup DoneMethods :
          constructed' = [constructed EXCEPT
                             !.op = "call", !.called = m,
                             !.exc = IF m \in constructed.hidden THEN "TypeError" ELSE None,
                             !.flags = IF m \in constructed.hidden THEN @ ELSE CallMethod(m, @)]
    /\ UNCHANGED exceptConstruct

\* obj.__serialize__
ConstructedSerialize ==
    /\ constructed.op \in {"init", "call"}
    /\ constructed.op = "init" => constructed.exc = None
    /\ constructed' = [constructed EXCEPT !.op = "serialize", !.exc = None,
                                          !.data = FileActions_serialize(constructed.flags)]
    /\ UNCHANGED exceptConstruct

ConstructNext == Construct \/ ConstructedCall \/ ConstructedSerialize

(***************************************************************************)
(* The complete_filename setter and save()                                 *)
(* (src/handler/file/__init__.py)                                          *)
(***************************************************************************)

\* Bound: the number of calls made on the file.
MaxLifecycleCalls == 3

\* The complete_filename setter called with (name, ext): nothing happens when
\* both are the current ones; else the old name goes to the history, the new
\* ones are set and, for a file saved before, to_rename() is called.
\* remove_reserved_filename looks the file up in an index keyed by its
\* FileNaming and removes nothing.  _state is not assigned.
complete_filename_setter(f, name, ext) ==
    IF name = f.filename /\ ext = f.extension THEN f
    ELSE [f EXCEPT !.filename = name, !.extension = ext,
                   !.actions = IF f.adding THEN @ ELSE to_rename(@)]

\* Values assigned to file.content: a str, a stream with a mode, and the
\* values FileContent(value, related_file_object=self) answers with
\* ValueError: an empty str or None, and an object that is no str, bytes or
\* IOBase.
ContentValues == {"text", "stream", "empty", "number"}
FileContent_raises_ValueError(value) == value \in {"empty", "number"}

\* file._content: which FileContent object it is (the value it was made from
\* and the call that made it), or None.
NoController == [made_from |-> None, at |-> 0]
Controller(value, call) == [made_from |-> value, at |-> call]

content_setter_marks_always(f, value, packed) ==
    [set_content(f) EXCEPT !.content = f.content,
                           !.actions = IF packed THEN to_list(@) ELSE @]

\* The content setter with any value: nothing changes when FileContent raises
\* ValueError; else _content is the new object, changing is set for a saved
\* file that had content, to_save() and to_hash() are called, and to_list()
\* as well when meta.packed.
content_setter(f, value, packed) ==
    IF FileContent_raises_ValueError(value) THEN f
    ELSE [set_content(f) EXCEPT !.actions = IF packed THEN to_list(@) ELSE @]

\* A file as BaseFile builds it, with save_to and with or without content, on
\* a storage that may hold a file under its name and a ledger that may hold
\* its name for another object.
LifecycleInit ==
    \E state \in [1..3 -> BOOLEAN], onDisk \in {"none", "old"}, holder \in {"nobody", "other"},
       hasContent \in BOOLEAN, packed \in BOOLEAN :
        lifecycle =
           [w |-> World(BaseFile_init(state, FileActionsDefaults, "txt",
                                      IF state[1] THEN None ELSE "txt", "dir", hasContent,
                                      ~state[1]),
                        [n \in Filenames |-> IF n = "a" THEN onDisk ELSE "none"],
                        [n \in Filenames |-> IF n = "a" THEN holder ELSE "nobody"]),
            controller |-> IF hasContent THEN Controller("text", 0) ELSE NoController,
            packed |-> packed, value |-> None,
            op |-> "init", exc |-> None, calls |-> 0]

LifecycleIdle ==
    lifecycle =
       [w |-> World(BaseFile_init(<<TRUE, FALSE, FALSE>>, FileActionsDefaults, "txt", None,
                                  "dir", TRUE, FALSE),
                    [n \in Filenames |-> "none"], [n \in Filenames |-> "nobody"]),
        controller |-> Controller("text", 0), packed |-> FALSE, value |-> None,
        op |-> "init", exc |-> None, calls |-> 0]

\* file.complete_filename = (name, ext).  storage.files tells what is at the
\* path of each filename under the extension of the file, so with a new
\* extension the paths are other ones and what is at the new path is open.
LifecycleSetName ==
    /\ lifecycle.calls < MaxLifecycleCalls
    /\ \E name \in Filenames, ext \in Extensions, onDisk \in {"none", "old"} :
          lifecycle' =
             [lifecycle EXCEPT
                !.w = [lifecycle.w EXCEPT
                        !.file = complete_filename_setter(@, name, ext),
                        !.storage.files =
                            IF ext = lifecycle.w.file.extension THEN @
                            ELSE [n \in Filenames |-> IF n = name THEN onDisk ELSE "none"]],
                !.op = "complete_filename", !.exc = None, !.value = None,
                !.calls = lifecycle.calls + 1]
    /\ UNCHANGED exceptLifecycle

\* file.content = value
LifecycleSetContent ==
    /\ lifecycle.calls < MaxLifecycleCalls
    /\ \E value \in ContentValues :
          lifecycle' =
             [lifecycle EXCEPT
                !.w.file = content_setter(@, value, lifecycle.packed),
                !.controller = IF FileContent_raises_ValueError(value) THEN @
                               ELSE Controller(value, lifecycle.calls + 1),
                !.op = "content", !.exc = None, !.value = value,
                !.calls = lifecycle.calls + 1]
    /\ UNCHANGED exceptLifecycle

\* file.save(options), every storage call succeeding.
LifecycleSave ==
    /\ lifecycle.calls < MaxLifecycleCalls
    /\ \E o \in SaveOptions :
         \E r \in {save(lifecycle.w, o, None)} :
            lifecycle' = [lifecycle EXCEPT !.w = r.w, !.op = "save", !.exc = r.exc,
                                           !.value = None, !.calls = lifecycle.calls + 1]
    /\ UNCHANGED exceptLifecycle

LifecycleNext == LifecycleSetName \/ LifecycleSetContent \/ LifecycleSave

(***************************************************************************)
(* BaseHasher.process and process_from_file                                *)
(* (src/filejacket/pipelines/base.py) with BaseFile.generate_hashes        *)
(* (src/handler/file/__init__.py)                                          *)
(***************************************************************************)

\* Bound: the number of calls made on the file and the hasher.
MaxHashingCalls == 4

\* The contents a file is given.
Bodies == {"c1", "c2"}

\* An entry hashes[H] of the file: none, the hex digest of a hash object that
\* was fed the contents `fed` in this order, or a digest read from a checksum
\* file.
NoDigest == [given |-> FALSE, fed |-> << >>, loaded |-> None]
Digested(fed) == [given |-> TRUE, fed |-> fed, loaded |-> None]
Loaded(digest) == [given |-> TRUE, fed |-> << >>, loaded |-> digest]

\* hash_objects[H][id(file)]: no hash object, or the contents it was fed.
NoHashObject == [given |-> FALSE, fed |-> << >>]
HashObject(fed) == [given |-> TRUE, fed |-> fed]

\* Checksum files of the directory of the file: none; one that gives d1; one
\* whose two lines name the file with different digests.
ChecksumDirectories ==
    {[f \in ListedFiles |-> Absent],
     [f \in ListedFiles |->
         IF f = "photo.jpg.md5" THEN Holding(<<[kind |-> "path", digest |-> "d1"]>>)
         ELSE Absent],
     [f \in ListedFiles |->
         IF f = "CHECKSUM.md5"
         THEN Holding(<<[kind |-> "name", digest |-> "d1"], [kind |-> "name", digest |-> "d2"]>>)
         ELSE Absent]}

\* What cls.load_from_file gives in such a directory.
LoadOutcomes ==
    {load_from_file(None, manifest, order) :
        manifest \in ChecksumDirectories,
        order \in UNION {Orders(existing(m, TRUE)) : m \in ChecksumDirectories}}

HashOutcome(h, e, ret) == [h |-> h, exc |-> e, ret |-> ret]

\* BaseHasher.process_from_file; r is what load_from_file gives.  The handler
\* of the class becomes the storage of the file; the finally clause puts the
\* former one back, and the return for a file without path comes before it.
process_from_file(h, r) ==
    IF ~h.has_path
    THEN HashOutcome([h EXCEPT !.file_system_handler = h.storage], None, FALSE)
    ELSE IF r.exc = "FileNotFoundError" THEN HashOutcome(h, None, FALSE)
    ELSE IF r.exc # None THEN HashOutcome(h, r.exc, FALSE)
    ELSE HashOutcome([h EXCEPT !.hashes = Loaded(r.digest)], None, TRUE)

\* process from `file_id = str(id(object_to_process))` on: a hash object is
\* made and fed the content only if the class holds none for the file, and
\* its digest is stored in hashes[H].
process_digest(h) ==
    IF ~h.hash_object.given
    THEN IF h.body = None THEN HashOutcome(h, None, FALSE)
         ELSE HashOutcome([h EXCEPT !.hash_object = HashObject(<<h.body>>),
                                !.hashes = Digested(<<h.body>>)], None, TRUE)
    ELSE HashOutcome([h EXCEPT !.hashes = Digested(h.hash_object.fed)], None, TRUE)

process_after_file(h, p) ==
    IF p.exc # None \/ p.ret THEN p ELSE process_digest(p.h)

\* BaseHasher.process(object_to_process=file, try_loading_from_file=...)
BaseHasher_process(h, try_loading_from_file, r) ==
    IF h.hashes.given THEN HashOutcome(h, None, TRUE)
    ELSE IF try_loading_from_file THEN process_after_file(h, process_from_file(h, r))
    ELSE process_digest(h)

\* BaseFile.generate_hashes(force): the hasher pipeline, of the one hasher H,
\* runs when a hash is pending, and hashed() is called.
BaseFile_generate_hashes(h, force, r) ==
    IF ~h.file.actions["hash"] THEN HashOutcome(h, None, TRUE)
    ELSE LET p == BaseHasher_process(h, IF h.file.changing \/ force THEN FALSE
                                        ELSE h.file.actions["was_saved"], r)
         IN  IF p.exc # None THEN p
             ELSE HashOutcome([p.h EXCEPT !.file.actions = hashed(@)], None, TRUE)

\* The hasher class as first loaded (handler A, no hash objects) and a file
\* kept in storage A or B, new or saved before, without content or hashes.
HashingStart(storage, has_path, was_saved) ==
    [file_system_handler |-> "A", hash_object |-> NoHashObject,
     file |-> BaseFile_init(<<~was_saved, FALSE, FALSE>>,
                            IF was_saved THEN saved(FileActionsDefaults)
                            ELSE FileActionsDefaults,
                            "jpg", None, "dir", FALSE, FALSE),
     body |-> None, hashes |-> NoDigest, storage |-> storage, has_path |-> has_path]

NotHashed(h) ==
    [h |-> h, handler_before |-> h.file_system_handler, op |-> "init", exc |-> None,
     ret |-> FALSE, calls |-> 0]

HashingInit ==
    \E storage \in Storages, has_path \in BOOLEAN, was_saved \in BOOLEAN :
        hashing = NotHashed(HashingStart(storage, has_path, was_saved))

HashingIdle == hashing = NotHashed(HashingStart("A", FALSE, FALSE))

HashingCalled(name, p) ==
    hashing' = [h |-> p.h, handler_before |-> hashing.h.file_system_handler, op |-> name,
                exc |-> p.exc, ret |-> p.ret, calls |-> hashing.calls + 1]

\* file.content = body
HashingSetContent ==
    /\ hashing.calls < MaxHashingCalls
    /\ \E body \in Bodies :
          HashingCalled("content",
              HashOutcome([hashing.h EXCEPT !.file = content_setter(@, "text", FALSE),
                                        !.body = body], None, TRUE))
    /\ UNCHANGED exceptHashing

\* file.generate_hashes(force=...), the checksum files not disagreeing.
HashingGenerate ==
    /\ hashing.calls < MaxHashingCalls
    /\ \E force \in BOOLEAN, r \in {o \in LoadOutcomes : o.exc \in {None, "FileNotFoundError"}} :
          \E p \in {BaseFile_generate_hashes(hashing.h, force, r)} :
              HashingCalled("generate_hashes", p)
    /\ UNCHANGED exceptHashing

\* H.process_from_file(object_to_process=file)
HashingProcessFromFile ==
    /\ hashing.calls < MaxHashingCalls
    /\ \E r \in LoadOutcomes :
          \E p \in {process_from_file(hashing.h, r)} :
              HashingCalled("process_from_file", p)
    /\ UNCHANGED exceptHashing

HashingNext == HashingSetContent \/ HashingGenerate \/ HashingProcessFromFile

(***************************************************************************)
(* PackageExtractor.validate and PackageExtractor.process                  *)
(* (src/filejacket/pipelines/extractor/package.py)                         *)
(***************************************************************************)

MaxPackageCalls == 2

\* A class of the archive family: extensions and compressor_class are None in
\* PackageExtractor and in a child that does not declare them.
PackageClass(name, extensions, has_compressor) ==
    [name |-> name, has_extensions |-> extensions # {}, extensions |-> extensions,
     has_compressor |-> has_compressor]

\* The classes package.py defines, with the attributes each declares.
PackageClasses ==
    {PackageClass("PackageExtractor", {}, FALSE),
     PackageClass("MastrokaFilesFromPackageExtractor", {}, FALSE),
     PackageClass("PSDLayersFromPackageExtractor", {"psd", "psb"}, TRUE),
     PackageClass("TarCompressedFilesFromPackageExtractor", {"gz", "tar", "bz", "cbt"}, TRUE),
     PackageClass("ZipCompressedFilesFromPackageExtractor", {"zip", "cbz"}, TRUE),
     PackageClass("RarCompressedFilesFromPackageExtractor", {"rar", "cbr"}, TRUE),
     PackageClass("SevenZipCompressedFilesFromPackageExtractor", {"7z", "cb7"}, TRUE)}

\* file_object.extension of the files given (None: the file has none).
PackageFileExtensions == {"zip", "tar", "jpg", None}

PackageExtractor_validate_any_extension(class, extension) ==
    IF ~class.has_extensions \/ ~class.has_compressor THEN "NotImplementedError" ELSE None

\* PackageExtractor.validate: the exception it raises, None when it returns.
PackageExtractor_validate(class, extension) ==
    IF ~class.has_extensions THEN "NotImplementedError"
    ELSE IF ~class.has_compressor THEN "NotImplementedError"
    ELSE IF extension \notin class.extensions THEN "ValidationError"
    ELSE None

\* PackageExtractor.process(kwargs): `given` tells whether kwargs holds
\* object_to_process; extract is called by BaseExtractor.process only.
PackageExtractor_process(class, given, extension, extractError) ==
    IF ~given
    THEN [exc |-> None, val |-> PyFalse, extract_called |-> FALSE]
    ELSE IF PackageExtractor_validate(class, extension) = "ValidationError"
    THEN [exc |-> None, val |-> PyFalse, extract_called |-> FALSE]
    ELSE IF PackageExtractor_validate(class, extension) # None
    THEN [exc |-> PackageExtractor_validate(class, extension), val |-> None,
          extract_called |-> FALSE]
    ELSE [exc |-> BaseExtractor_process(extractError).exc,
          val |-> BaseExtractor_process(extractError).val, extract_called |-> TRUE]

NoPackageCall ==
    [op |-> "none", class |-> PackageClass("PackageExtractor", {}, FALSE), given |-> FALSE,
     extension |-> None, exc |-> None, val |-> None, extract_called |-> FALSE, calls |-> 0]

PackageInit == package = NoPackageCall
PackageIdle == package = NoPackageCall

\* cls.validate(file_object=f)
PackageValidate ==
    /\ package.calls < MaxPackageCalls
    /\ \E class \in PackageClasses, extension \in PackageFileExtensions :
          package' = [op |-> "validate", class |-> class, given |-> TRUE,
                      extension |-> extension,
                      exc |-> PackageExtractor_validate(class, extension), val |-> None,
                      extract_called |-> FALSE, calls |-> package.calls + 1]
    /\ UNCHANGED exceptPackage

\* cls.process(object_to_process=f) and cls.process() without the file
PackageProcess ==
    /\ package.calls < MaxPackageCalls
    /\ \E class \in PackageClasses, given \in BOOLEAN, extension \in PackageFileExtensions,
          extractError \in ExtractErrors :
          /\ ~given => extension = None
          /\ \E r \in {PackageExtractor_process(class, given, extension, extractError)} :
                package' = [op |-> "process", class |-> class, given |-> given,
                            extension |-> extension, exc |-> r.exc, val |-> r.val,
                            extract_called |-> r.extract_called,
                            calls |-> package.calls + 1]
    /\ UNCHANGED exceptPackage

PackageNext == PackageValidate \/ PackageProcess

(***************************************************************************)
(* PackageExtractor.ContentBuffer and the buffers content_buffer makes     *)
(* (src/filejacket/pipelines/extractor/package.py)                         *)
(***************************************************************************)

MaxBufferCalls == 4

\* The classes content_buffer returns: PSDContentBuffer, TarContentBuffer,
\* ZipContentBuffer, RarContentBuffer and SevenZipContentBuffer.
BufferKinds == {"PSD", "Tar", "Zip", "Rar", "SevenZip"}

\* Number of bytes of the archived entry once decompressed (0: an entry
\* without content, for which Tar and 7z mount BytesIO(b"")).
EntryLengths == {0, 2}

\* Sizes given to read: one byte, and as many as the longest entry has.
ReadSizes == {1, 2}

\* ContentBuffer.__init__: the five attributes are stored; compressed_object
\* keeps the None of the class and no attribute buffer exists.
ContentBuffer_init(kind, entry_length) ==
    [kind |-> kind, entry_length |-> entry_length, has_buffer |-> FALSE,
     has_compressed_object |-> FALSE, position |-> 0, mounts |-> 0]

\* mount_compressed_object of the Tar, Zip, Rar and 7z buffers.
mount_compressed_object(b) == [b EXCEPT !.has_compressed_object = TRUE]

\* mount_buffer of the child class: a new stream at position 0. The PSD buffer
\* opens the image on every mount and keeps no compressed_object.
mount_buffer(b) ==
    [(IF b.kind = "PSD" \/ b.has_compressed_object THEN b ELSE mount_compressed_object(b))
        EXCEPT !.has_buffer = TRUE, !.position = 0, !.mounts = @ + 1]

\* `if not hasattr(self, "buffer"): self.mount_buffer()`
mounted_buffer(b) == IF b.has_buffer THEN b ELSE mount_buffer(b)

\* Bytes self.buffer.read(size) returns from the position the stream is at.
bytes_read(b, size) ==
    IF b.position + size > b.entry_length
    THEN b.entry_length - b.position
    ELSE size

ContentBuffer_read_mounts_always(b, size) ==
    [b |-> [mount_buffer(b) EXCEPT !.position = @ + bytes_read(mount_buffer(b), size)],
     start |-> 0, ret |-> bytes_read(mount_buffer(b), size)]

\* ContentBuffer.read (and TarContentBuffer.read, which has the same body)
ContentBuffer_read(b, size) ==
    [b |-> [mounted_buffer(b) EXCEPT !.position = @ + bytes_read(mounted_buffer(b), size)],
     start |-> mounted_buffer(b).position, ret |-> bytes_read(mounted_buffer(b), size)]

\* ContentBuffer.seek(offset): returns the new position
ContentBuffer_seek(b, offset) ==
    [b |-> [mounted_buffer(b) EXCEPT !.position = offset], start |-> offset, ret |-> offset]

\* seekable of the child class: none of them mounts the buffer; all but the
\* PSD buffer mount the compressed object to ask it.
ContentBuffer_seekable(b) ==
    [b |-> IF b.kind = "PSD" \/ b.has_compressed_object THEN b ELSE mount_compressed_object(b),
     start |-> 0, ret |-> 0]

\* ContentBuffer.close: nothing without buffer; else close it and delattr.
ContentBuffer_close(b) ==
    [b |-> IF ~b.has_buffer THEN b ELSE [b EXCEPT !.has_buffer = FALSE, !.position = 0],
     start |-> 0, ret |-> 0]

NoContentBuffer ==
    [b |-> ContentBuffer_init("Zip", 0), op |-> "none", start |-> 0, ret |-> 0, calls |-> 0]

BufferInit == cbuffer = NoContentBuffer
BufferIdle == cbuffer = NoContentBuffer

ContentBufferCalled(name, r) ==
    cbuffer' = [b |-> r.b, op |-> name, start |-> r.start, ret |-> r.ret,
                calls |-> cbuffer.calls + 1]

\* cls.content_buffer(file_object, internal_file_name, mode)
ContentBufferConstruct ==
    /\ cbuffer.op = "none"
    /\ \E kind \in BufferKinds, entry_length \in EntryLengths :
          cbuffer' = [cbuffer EXCEPT !.b = ContentBuffer_init(kind, entry_length),
                                     !.op = "init"]
    /\ UNCHANGED exceptBuffer

ContentBufferRead ==
    /\ cbuffer.op # "none" /\ cbuffer.calls < MaxBufferCalls
    /\ \E size \in ReadSizes : ContentBufferCalled("read", ContentBuffer_read(cbuffer.b, size))
    /\ UNCHANGED exceptBuffer

ContentBufferSeek ==
    /\ cbuffer.op # "none" /\ cbuffer.calls < MaxBufferCalls
    /\ \E offset \in 0..cbuffer.b.entry_length :
          ContentBufferCalled("seek", ContentBuffer_seek(cbuffer.b, offset))
    /\ UNCHANGED exceptBuffer

ContentBufferSeekable ==
    /\ cbuffer.op # "none" /\ cbuffer.calls < MaxBufferCalls
    /\ ContentBufferCalled("seekable", ContentBuffer_seekable(cbuffer.b))
    /\ UNCHANGED exceptBuffer

ContentBufferClose ==
    /\ cbuffer.op # "none" /\ cbuffer.calls < MaxBufferCalls
    /\ ContentBufferCalled("close", ContentBuffer_close(cbuffer.b))
    /\ UNCHANGED exceptBuffer

BufferNext == ContentBufferConstruct \/ ContentBufferRead \/ ContentBufferSeek \/ ContentBufferSeekable \/ ContentBufferClose

(***************************************************************************)
(* decompress of the Tar, Zip, Rar and 7z extractors                       *)
(* (src/filejacket/pipelines/extractor/package.py)                         *)
(***************************************************************************)

\* The four classes whose decompress has this body; they differ in the
\* compressor class and in the exception caught.
ArchiveClasses ==
    {"TarCompressedFilesFromPackageExtractor", "ZipCompressedFilesFromPackageExtractor",
     "RarCompressedFilesFromPackageExtractor", "SevenZipCompressedFilesFromPackageExtractor"}

\* Names of archive entries, as sequences of characters: a plain name, an
\* absolute one, one that climbs out of the directory, and a hidden file.
EntryNames == {<<"a">>, <<"/", "a">>, <<".", ".", "/", "a">>, <<".", "a">>}

\* `filename[0] == "/" or filename[0:2] == ".."`
begins_unsafe(filename) ==
    \/ filename[1] = "/"
    \/ SubSeq(filename, 1, Min(2, Len(filename))) = <<".", ".">>

\* The list `targets` built under `if not overrider`.
decompress_targets(entries, present) ==
    {filename \in entries : ~begins_unsafe(filename) /\ filename \notin present}

\* extractall(path, members) / extract(path, targets) of the compressor:
\* members None stands for every entry of the archive.
extractall(entries, all_members, members) == IF all_members THEN entries ELSE members

\* decompress(file_object, overrider, decompress_to=...): `entries` are the
\* names of the archive, `present` those whose destination path exists,
\* bad_file tells whether the compressor rejects the content.
decompress(entries, present, overrider, has_decompress_to, bad_file) ==
    IF ~has_decompress_to
    THEN [exc |-> "KeyError", val |-> None, called |-> FALSE, extracted |-> {}]
    ELSE IF bad_file
    THEN [exc |-> None, val |-> PyFalse, called |-> FALSE, extracted |-> {}]
    ELSE IF ~overrider /\ decompress_targets(entries, present) = {}
    THEN [exc |-> None, val |-> PyTrue, called |-> FALSE, extracted |-> {}]
    ELSE [exc |-> None, val |-> PyTrue, called |-> TRUE,
          extracted |-> extractall(entries, overrider, decompress_targets(entries, present))]

NotDecompressed ==
    [op |-> "none", class |-> "", entries |-> {}, present |-> {}, overrider |-> FALSE,
     exc |-> None, val |-> None, called |-> FALSE, extracted |-> {}]

DecompressInit == archive = NotDecompressed
DecompressIdle == archive = NotDecompressed

\* cls.decompress(file_object=f, overrider=..., decompress_to=path)
Decompress ==
    /\ archive.op = "none"
    /\ \E class \in ArchiveClasses, entries \in SUBSET EntryNames,
          present \in SUBSET EntryNames, overrider \in BOOLEAN,
          has_decompress_to \in BOOLEAN, bad_file \in BOOLEAN :
          \E r \in {decompress(entries, present, overrider, has_decompress_to, bad_file)} :
             archive' = [op |-> "decompress", class |-> class, entries |-> entries,
                         present |-> present, overrider |-> overrider, exc |-> r.exc,
                         val |-> r.val, called |-> r.called, extracted |-> r.extracted]
    /\ UNCHANGED exceptDecompress

DecompressNext == Decompress

(***************************************************************************)
(* Specifications                                                          *)
(***************************************************************************)

\* Keyword arguments of the constructor: flags given as True, naming the
\* pending and/or done flag of at most MaxKwargActions actions.
KwargsSet ==
    {[f \in S |-> TRUE] :
        S \in {T \in SUBSET FlagNames :
                 Cardinality({a \in PendingFlags : a \in T \/ DoneOf(a) \in T}) <= MaxKwargActions}}

ActionsInit ==
    /\ kwargs \in KwargsSet
    /\ actions = FileActions_init(kwargs)
    /\ lastCall = ""
    /\ ncalls = 0

ActionsIdle ==
    /\ kwargs = << >>
    /\ actions = FileActionsDefaults
    /\ lastCall = ""
    /\ ncalls = 0

\* A call of one of the eight to_X methods.
CallTo ==
    /\ ncalls < MaxCalls
    /\ \E m \in ToMethods :
        /\ actions' = CallMethod(m, actions)
        /\ lastCall' = m
        /\ ncalls' = ncalls + 1
        /\ UNCHANGED kwargs
        /\ UNCHANGED exceptActions

\* A call of one of the eight done methods.
CallDone ==
    /\ ncalls < MaxCalls
    /\ \E m \in DoneMethods :
        /\ actions' = CallMethod(m, actions)
        /\ lastCall' = m
        /\ ncalls' = ncalls + 1
        /\ UNCHANGED kwargs
        /\ UNCHANGED exceptActions

ActionsNext == CallTo \/ CallDone

InitActions == ActionsInit /\ ContentIdle /\ CacheIdle /\ PipelineIdle /\ SaveIdle /\ RenamerIdle /\ HasherIdle
    /\ SerializerIdle /\ CompareIdle /\ ComparerIdle /\ ExtracterIdle /\ PacketIdle
        /\ ConstructIdle /\ LifecycleIdle /\ HashingIdle /\ PackageIdle
        /\ BufferIdle /\ DecompressIdle
SpecActions == InitActions /\ [][ActionsNext]_vars

InitContent == ContentInit /\ ActionsIdle /\ CacheIdle /\ PipelineIdle /\ SaveIdle /\ RenamerIdle /\ HasherIdle
    /\ SerializerIdle /\ CompareIdle /\ ComparerIdle /\ ExtracterIdle /\ PacketIdle
        /\ ConstructIdle /\ LifecycleIdle /\ HashingIdle /\ PackageIdle
        /\ BufferIdle /\ DecompressIdle
SpecContent == InitContent /\ [][ContentNext]_vars

InitCache == CacheInit /\ ActionsIdle /\ ContentIdle /\ PipelineIdle /\ SaveIdle /\ RenamerIdle /\ HasherIdle
    /\ SerializerIdle /\ CompareIdle /\ ComparerIdle /\ ExtracterIdle /\ PacketIdle
        /\ ConstructIdle /\ LifecycleIdle /\ HashingIdle /\ PackageIdle
        /\ BufferIdle /\ DecompressIdle
SpecCache == InitCache /\ [][CacheNext]_vars

InitPipeline == PipelineInit /\ ActionsIdle /\ ContentIdle /\ CacheIdle /\ SaveIdle /\ RenamerIdle /\ HasherIdle
    /\ SerializerIdle /\ CompareIdle /\ ComparerIdle /\ ExtracterIdle /\ PacketIdle
        /\ ConstructIdle /\ LifecycleIdle /\ HashingIdle /\ PackageIdle
        /\ BufferIdle /\ DecompressIdle
SpecPipeline == InitPipeline /\ [][PipelineNext]_vars

InitRenamer ==
    RenamerInit /\ ActionsIdle /\ ContentIdle /\ CacheIdle /\ PipelineIdle /\ SaveIdle
        /\ HasherIdle /\ SerializerIdle /\ CompareIdle /\ ComparerIdle /\ ExtracterIdle
        /\ PacketIdle /\ ConstructIdle /\ LifecycleIdle /\ HashingIdle /\ PackageIdle
        /\ BufferIdle /\ DecompressIdle
SpecRenamer == InitRenamer /\ [][RenamerNext]_vars

InitHasher ==
    HasherInit /\ ActionsIdle /\ ContentIdle /\ CacheIdle /\ PipelineIdle /\ SaveIdle
        /\ RenamerIdle /\ SerializerIdle /\ CompareIdle /\ ComparerIdle /\ ExtracterIdle
        /\ PacketIdle /\ ConstructIdle /\ LifecycleIdle /\ HashingIdle /\ PackageIdle
        /\ BufferIdle /\ DecompressIdle
SpecHasher == InitHasher /\ [][HasherNext]_vars

InitSerializer ==
    SerializerInit /\ ActionsIdle /\ ContentIdle /\ CacheIdle /\ PipelineIdle /\ SaveIdle
        /\ RenamerIdle /\ HasherIdle /\ CompareIdle /\ ComparerIdle /\ ExtracterIdle
        /\ PacketIdle /\ ConstructIdle /\ LifecycleIdle /\ HashingIdle /\ PackageIdle
        /\ BufferIdle /\ DecompressIdle
SpecSerializer == InitSerializer /\ [][SerializerNext]_vars

InitCompare ==
    CompareInit /\ ActionsIdle /\ ContentIdle /\ CacheIdle /\ PipelineIdle /\ SaveIdle
        /\ RenamerIdle /\ HasherIdle /\ SerializerIdle /\ ComparerIdle /\ ExtracterIdle
        /\ PacketIdle /\ ConstructIdle /\ LifecycleIdle /\ HashingIdle /\ PackageIdle
        /\ BufferIdle /\ DecompressIdle
SpecCompare == InitCompare /\ [][CompareNext]_vars

InitComparer ==
    ComparerInit /\ ActionsIdle /\ ContentIdle /\ CacheIdle /\ PipelineIdle /\ SaveIdle
        /\ RenamerIdle /\ HasherIdle /\ SerializerIdle /\ CompareIdle /\ ExtracterIdle
        /\ PacketIdle /\ ConstructIdle /\ LifecycleIdle /\ HashingIdle /\ PackageIdle
        /\ BufferIdle /\ DecompressIdle
SpecComparer == InitComparer /\ [][ComparerNext]_vars

InitExtracter ==
    ExtracterInit /\ ActionsIdle /\ ContentIdle /\ CacheIdle /\ PipelineIdle /\ SaveIdle
        /\ RenamerIdle /\ HasherIdle /\ SerializerIdle /\ CompareIdle /\ ComparerIdle
        /\ PacketIdle /\ ConstructIdle /\ LifecycleIdle /\ HashingIdle /\ PackageIdle
        /\ BufferIdle /\ DecompressIdle
SpecExtracter == InitExtracter /\ [][ExtracterNext]_vars

InitPacket ==
    PacketInit /\ ActionsIdle /\ ContentIdle /\ CacheIdle /\ PipelineIdle /\ SaveIdle
        /\ RenamerIdle /\ HasherIdle /\ SerializerIdle /\ CompareIdle /\ ComparerIdle /\ ExtracterIdle
        /\ ConstructIdle /\ LifecycleIdle /\ HashingIdle /\ PackageIdle
        /\ BufferIdle /\ DecompressIdle
SpecPacket == InitPacket /\ [][PacketNext]_vars

InitConstruct ==
    ConstructInit /\ ActionsIdle /\ ContentIdle /\ CacheIdle /\ PipelineIdle /\ SaveIdle
        /\ RenamerIdle /\ HasherIdle /\ SerializerIdle /\ CompareIdle /\ ComparerIdle
        /\ ExtracterIdle /\ PacketIdle /\ LifecycleIdle /\ HashingIdle /\ PackageIdle
        /\ BufferIdle /\ DecompressIdle
SpecConstruct == InitConstruct /\ [][ConstructNext]_vars

InitLifecycle ==
    LifecycleInit /\ ActionsIdle /\ ContentIdle /\ CacheIdle /\ PipelineIdle /\ SaveIdle
        /\ RenamerIdle /\ HasherIdle /\ SerializerIdle /\ CompareIdle /\ ComparerIdle
        /\ ExtracterIdle /\ PacketIdle /\ ConstructIdle /\ HashingIdle /\ PackageIdle
        /\ BufferIdle /\ DecompressIdle
SpecLifecycle == InitLifecycle /\ [][LifecycleNext]_vars

InitHashing ==
    HashingInit /\ ActionsIdle /\ ContentIdle /\ CacheIdle /\ PipelineIdle /\ SaveIdle
        /\ RenamerIdle /\ HasherIdle /\ SerializerIdle /\ CompareIdle /\ ComparerIdle
        /\ ExtracterIdle /\ PacketIdle /\ ConstructIdle /\ LifecycleIdle
        /\ PackageIdle /\ BufferIdle /\ DecompressIdle
SpecHashing == InitHashing /\ [][HashingNext]_vars

InitPackage ==
    PackageInit /\ ActionsIdle /\ ContentIdle /\ CacheIdle /\ PipelineIdle /\ SaveIdle
        /\ RenamerIdle /\ HasherIdle /\ SerializerIdle /\ CompareIdle /\ ComparerIdle
        /\ ExtracterIdle /\ PacketIdle /\ ConstructIdle /\ LifecycleIdle /\ HashingIdle
        /\ BufferIdle /\ DecompressIdle
SpecPackage == InitPackage /\ [][PackageNext]_vars

InitBuffer ==
    BufferInit /\ ActionsIdle /\ ContentIdle /\ CacheIdle /\ PipelineIdle /\ SaveIdle
        /\ RenamerIdle /\ HasherIdle /\ SerializerIdle /\ CompareIdle /\ ComparerIdle
        /\ ExtracterIdle /\ PacketIdle /\ ConstructIdle /\ LifecycleIdle /\ HashingIdle /\ PackageIdle
        /\ DecompressIdle
SpecBuffer == InitBuffer /\ [][BufferNext]_vars

InitDecompress ==
    DecompressInit /\ ActionsIdle /\ ContentIdle /\ CacheIdle /\ PipelineIdle /\ SaveIdle
        /\ RenamerIdle /\ HasherIdle /\ SerializerIdle /\ CompareIdle /\ ComparerIdle
        /\ ExtracterIdle /\ PacketIdle /\ ConstructIdle /\ LifecycleIdle /\ HashingIdle /\ PackageIdle /\ BufferIdle
SpecDecompress == InitDecompress /\ [][DecompressNext]_vars

InitSave == SaveInit /\ ActionsIdle /\ ContentIdle /\ CacheIdle /\ PipelineIdle /\ RenamerIdle /\ HasherIdle
    /\ SerializerIdle /\ CompareIdle /\ ComparerIdle /\ ExtracterIdle /\ PacketIdle
        /\ ConstructIdle /\ LifecycleIdle /\ HashingIdle /\ PackageIdle
        /\ BufferIdle /\ DecompressIdle
SpecSave == InitSave /\ [][SaveNext]_vars

----------------------------------------------------------------------------
\* C6 (as stated): for every action the pending flag and the was_done flag
\* are never both true, on any FileActions object and after any sequence of
\* to_X() and X-done calls.
C6_NeverBothTrue ==
    \A a \in PendingFlags : ~(actions[a] /\ actions[DoneOf(a)])

\* The methods called so far include one of action a's pair: recorded per state
\* by the flags themselves is impossible, so the amended claim is stated on the
\* constructor arguments: a pair can read (True, True) only if the constructor
\* was given both flags.
BothGiven(a) == a \in DOMAIN kwargs /\ DoneOf(a) \in DOMAIN kwargs /\ kwargs[a] /\ kwargs[DoneOf(a)]

\* C6 (amended): when the constructor was not given both flags of an action
\* as True (in particular for FileActions()), the pending flag and the
\* was_done flag of that action are never both true after any sequence of
\* to_X() and X-done calls; and right after a to_X() or X-done call the two
\* flags of X differ whatever the constructor was given.
C6_NeverBothTrueUnlessConstructed ==
    /\ \A a \in PendingFlags : ~BothGiven(a) => ~(actions[a] /\ actions[DoneOf(a)])
    /\ lastCall # "" => actions[PendingOf(lastCall)] # actions[DoneOf(PendingOf(lastCall))]

\* Witness of C6: a default-constructed pair after to_save() and saved() calls
\* on an object whose constructor set another flag.
C6_Witness ==
    /\ lastCall = "saved"
    /\ ~BothGiven("save")
    /\ actions["was_saved"] /\ ~actions["save"]
    /\ "hash" \in DOMAIN kwargs

\* C7: to_X() leaves pending=True and was_done=False, the matching done method
\* leaves pending=False and was_done=True, whatever the flags were before.
C7_PairSetTogether ==
    /\ lastCall \in ToMethods =>
         actions[PendingOf(lastCall)] /\ ~actions[DoneOf(PendingOf(lastCall))]
    /\ lastCall \in DoneMethods =>
         ~actions[PendingOf(lastCall)] /\ actions[DoneOf(PendingOf(lastCall))]

\* Witness of C7: hashed() was called on an object that had hash pending.
C7_Witness ==
    /\ lastCall = "hashed"
    /\ actions["was_hashed"] /\ ~actions["hash"]
    /\ actions["save"]

\* C1: iterating a FileContent over a non-empty source (seekable or not) until
\* StopIteration yields blocks whose concatenation is the source content, and
\* reading `content` after that exhaustion returns the source content.
C1_IterationAndContentRoundTrip ==
    /\ phase # "failed"
    /\ phase = "exhausted" => yielded = fc.source
    /\ phase = "read" => (exc = None /\ val = Bytes(fc.source))

\* C8: on a NonCache strategy load_from_cache, load_buffer_from_cache and
\* consume raise OperationNotAllowed on every call, whatever was called before,
\* and consume leaves the iterator it is given where it was.
C8_NonCacheAlwaysRefuses ==
    [][(strategy.cls = "NonCache" /\ cop' \in {"load_from_cache", "load_buffer_from_cache", "consume"})
          => (cexc' = "OperationNotAllowed" /\ iterator' = iterator /\ strategy' = strategy)]_vars

\* Witness of C8: consume refused on a NonCache strategy that had chunks passed
\* through save_and_return and set_cached called, with items left in the iterator.
C8_Witness ==
    /\ strategy.cls = "NonCache"
    /\ cop = "consume"
    /\ cexc = "OperationNotAllowed"
    /\ {"save_and_return", "set_cached", "load_from_cache", "load_buffer_from_cache"} \subseteq seen
    /\ iterator = MaxItems

\* C9: over a non-seekable source, two successive reads of content_as_buffer
\* each return a stream at offset 0 that holds the whole source content.
C9_BufferTwiceFromStart ==
    (phase \in {"buffer1", "buffer2"} /\ ~fc.seekable)
        => (exc = None /\ val = Stream(fc.source, 0))

\* C10: while a block iteration is in progress (a next() returned a block and
\* StopIteration was not raised since), read(size) raises RecursionError and
\* neither reads from nor moves the buffer (the controller is left as it was).
C10_ReadRefusedWhileIterating ==
    [][(iterating /\ op' = "read") => (exc' = "RecursionError" /\ fc' = fc)]_vars

\* Witness of C10: read refused in the middle of an iteration.
C10_Witness ==
    /\ iterating
    /\ op = "read"
    /\ exc = "RecursionError"
    /\ BufferPos(fc) > 0
    /\ BufferPos(fc) < Len(BufferData(fc))

\* What binding j did in the run, and whether it was invoked at all.
Invoked(j) == \E k \in 1..Len(executed) : executed[k].binding = j

HaltedAt(i) ==
    \E k \in 1..Len(executed) :
        /\ executed[k].binding = i
        /\ executed[k].exc = None
        /\ stops(pipeline.bindings[i], executed[k].val)

RunOver == ran /\ runAt = 0

FirstStopsOnFalse ==
    /\ Len(pipeline.bindings) >= 2
    /\ pipeline.bindings[1].stopper
    /\ pipeline.bindings[1].stop_value = PyFalse
    /\ Len(executed) >= 1
    /\ executed[1].exc = None
    /\ executed[1].val = PyFalse

\* C2: in a run over bindings [A, B, ...] where A is a stopper with
\* stop_value=False, once A.process has returned False the run is over, no
\* binding after A has been invoked and last_result is False.
C2_StopperHaltsRun ==
    FirstStopsOnFalse =>
        /\ RunOver
        /\ \A j \in 2..Len(pipeline.bindings) : ~Invoked(j)
        /\ last_result = PyFalse

C2_Witness == FirstStopsOnFalse /\ RunOver /\ Len(pipeline.bindings) = 2

\* The exception binding executed[k] raised is in the error list under that binding.
Recorded(k) ==
    \E e \in 1..Len(errors) :
        errors[e] = [processor |-> executed[k].binding, exc |-> executed[k].exc]

\* After executed[k] raised, the run went on to the next binding of the list.
WentOn(k) ==
    executed[k].binding < Len(pipeline.bindings) =>
        IF k = Len(executed) THEN runAt = executed[k].binding + 1
        ELSE executed[k + 1].binding = executed[k].binding + 1

\* C3 as stated: when a process raises, the exception is recorded for that
\* processor, the run goes on, and once the run is over every later binding
\* of the list has been invoked.
C3_EveryLaterProcessorRuns ==
    \A k \in 1..Len(executed) :
        executed[k].exc # None =>
            /\ Recorded(k)
            /\ WentOn(k)
            /\ RunOver => \A j \in (executed[k].binding + 1)..Len(pipeline.bindings) : Invoked(j)

\* C3, amended: when a process raises, the exception is recorded for that
\* processor, the run goes on to the next binding, and once the run is over
\* every later binding has been invoked except those after a binding whose
\* own result met the stopper contract.
C3_ExceptionDoesNotEndRun ==
    \A k \in 1..Len(executed) :
        executed[k].exc # None =>
            /\ Recorded(k)
            /\ WentOn(k)
            /\ RunOver =>
                 \A j \in (executed[k].binding + 1)..Len(pipeline.bindings) :
                     \/ Invoked(j)
                     \/ \E i \in (executed[k].binding + 1)..(j - 1) : HaltedAt(i)

C3_Witness ==
    /\ RunOver
    /\ Len(executed) = 3
    /\ executed[1].exc # None
    /\ executed[2].exc = None
    /\ pipeline.bindings[1].stopper

Refused == sexc = "OperationNotAllowed" /\ touched = {}

\* C4 as stated: whenever save() is called in one of the four cases, it
\* raises OperationNotAllowed and has written, backed up, renamed, reserved
\* and flagged nothing.
C4_RefusedBeforeAnyMutation == (sop = "save" /\ cases # {}) => Refused

\* C4, amended: a save() that does not pass validate() raises ValidationError
\* and changes nothing; one that passes it and is called in case (i), (ii) or
\* (iii), or in case (iv) with a previously saved extension on record, raises
\* OperationNotAllowed and changes nothing.
C4_RefusedOnceValidated ==
    sop = "save" =>
        /\ ~valid => (sexc = "ValidationError" /\ touched = {})
        /\ (valid /\ (cases \cap {1, 2, 3} # {} \/ (4 \in cases /\ previous # None)))
               => Refused

C4_Witness == sop = "save" /\ valid /\ cases = {3} /\ Refused

\* C5: whenever save() raises, the storage, the backup, the hash files,
\* _state, _actions and the naming ledger are as they were before the call.
C5_SaveIsAllOrNothing == (sop = "save" /\ sexc # None) => touched \subseteq {"attributes"}

\* The names get_name had to avoid in the last call: those its storage holds
\* and those reserved.
Taken == storages[rcall.usedHandler] \cup rcall.usedReserved

\* The smallest n >= 1 such that "photo (n)" / "photo - n" is not taken.
SmallestFree ==
    CHOOSE n \in 1..(MaxEnumeration + 1) :
        <<n>> \notin Taken /\ \A m \in 1..(n - 1) : <<m>> \in Taken

\* C11: WindowsRenamer.get_name("dir", "photo", "jpg"), when photo.jpg exists
\* or is reserved, returns "photo (n)" for the smallest n >= 1 whose path
\* neither exists nor is reserved: "photo (1)" when only photo.jpg exists,
\* "photo (2)" when photo (1).jpg exists as well.
C11_WindowsSmallestFree ==
    (renamer.style = "windows" /\ rcall.op = "get_name"
        /\ rcall.filename = << >> /\ << >> \in Taken)
    => rcall.name = <<SmallestFree>>

\* C12: LinuxRenamer.get_name("dir", "photo", "jpg"), when photo.jpg exists
\* or is reserved, returns "photo - n" for the smallest n >= 1 whose path
\* neither exists nor is reserved: "photo - 1" when only photo.jpg exists,
\* "photo - 2" when photo - 1.jpg exists as well.
C12_LinuxSmallestFree ==
    (renamer.style = "linux" /\ rcall.op = "get_name"
        /\ rcall.filename = << >> /\ << >> \in Taken)
    => rcall.name = <<SmallestFree>>

\* C13: UniqueRenamer.get_name raises BlockingIOError exactly when the first
\* 100 UUID candidates all collide; when fewer collide it returns the first
\* free candidate and raises nothing.
C13_BlockingExactlyAtHundred ==
    (renamer.style = "unique" /\ rcall.op = "get_name")
    => /\ (rcall.exc = "BlockingIOError") <=> (rcall.collisions >= 100)
       /\ rcall.collisions < 100
             => (rcall.exc = None /\ rcall.candidate = rcall.collisions)

C13_Witness ==
    /\ renamer.style = "unique" /\ rcall.op = "get_name"
    /\ rcall.collisions = 100 /\ rcall.exc = "BlockingIOError"

C13_WitnessLastTry ==
    /\ renamer.style = "unique" /\ rcall.op = "get_name"
    /\ rcall.collisions = 99 /\ rcall.exc = None /\ rcall.candidate = 99

\* C18: after a call of process has returned or raised, the class attributes
\* file_system_handler and reserved_names are what they were before the call.
C18_ClassStateRestored ==
    rcall.op = "process"
    => /\ renamer.file_system_handler = rcall.handlerBefore
       /\ renamer.reserved_names = rcall.reservedBefore

Listing ==
    {f \in existing(manifests, hcall.full_check) :
        \E i \in 1..Len(manifests[f].lines) : manifests[f].lines[i].kind # "comment"}

ListedDigests ==
    UNION {{manifests[f].lines[i].digest :
               i \in {j \in 1..Len(manifests[f].lines) : manifests[f].lines[j].kind # "comment"}} :
           f \in Listing}

\* C14: when two checksum files both list the file, load_from_file returns
\* the common digest if they give the same digest and raises
\* MultipleFileExistError if they give different ones, whatever the order in
\* which the files are visited.
C14_DisagreementIsFatal ==
    (hcall.op = "load_from_file" /\ ~hcall.fromCache /\ Cardinality(Listing) = 2)
    => IF Cardinality(ListedDigests) = 1
       THEN hcall.exc = None /\ hcall.digest \in ListedDigests
       ELSE hcall.exc = "MultipleFileExistError"

\* C15: deserialize(serialize(f)) gives a file equal to f on every attribute
\* other than the content, the entries of the packet included, and with the
\* serializer that includes the content the content is equal byte for byte.
C15_RoundTripRestoresFile ==
    restored.op = "deserialize"
    => /\ restored.exc = None
       /\ restored.attrs = original.attrs
       /\ restored.has_packet = original.has_packet
       /\ restored.internal_files = original.internal_files
       /\ original.kind = "FileWithContentDictionarySerializer"
             => (restored.has_content = original.has_content /\ restored.bytes = original.bytes)

\* C16 as stated: every rich comparison of two files runs the compare
\* pipeline and takes its result from it, == is False and != is True when the
\* pipeline's result is None, and no comparison raises.
C16_EveryComparisonFromPipeline ==
    compared.operator # "none"
    => /\ compared.outcome.ran_pipeline
       /\ compared.outcome.exc = None
       /\ (compared.pipeline_result = PyNone /\ compared.operator = "==")
             => compared.outcome.val = PyFalse
       /\ (compared.pipeline_result = PyNone /\ compared.operator = "!=")
             => compared.outcome.val = PyTrue

BothLengths == compared.self_length.given /\ compared.other_length.given

LengthBelow == compared.self_length.bytes < compared.other_length.bytes
LengthAbove == compared.self_length.bytes > compared.other_length.bytes

\* C16, amended: == and != run the compare pipeline and never raise: == gives
\* True when the pipeline's result is True and False when it is False or
\* None, != gives the opposite.  < and > compare the two lengths without
\* running the pipeline and raise TypeError when a length is None.  <= and >=
\* raise TypeError when a length is None, give True without running the
\* pipeline when the length comparison is true, and otherwise give what ==
\* gives.
C16_EqualityFromPipelineOrderFromLength ==
    /\ compared.operator \in {"==", "!="}
          => /\ compared.outcome.ran_pipeline /\ compared.outcome.exc = None
             /\ compared.outcome.val =
                   PyBool((compared.pipeline_result = PyTrue) <=> (compared.operator = "=="))
    /\ (compared.operator \in {"<", "<=", ">", ">="} /\ ~BothLengths)
          => (compared.outcome.exc = "TypeError" /\ ~compared.outcome.ran_pipeline)
    /\ (compared.operator = "<" /\ BothLengths)
          => compared.outcome = Outcome(FALSE, None, PyBool(LengthBelow))
    /\ (compared.operator = ">" /\ BothLengths)
          => compared.outcome = Outcome(FALSE, None, PyBool(LengthAbove))
    /\ (compared.operator = "<=" /\ BothLengths)
          => compared.outcome =
                (IF LengthBelow THEN Outcome(FALSE, None, PyTrue)
                 ELSE Outcome(TRUE, None, PyBool(compared.pipeline_result = PyTrue)))
    /\ (compared.operator = ">=" /\ BothLengths)
          => compared.outcome =
                (IF LengthAbove THEN Outcome(FALSE, None, PyTrue)
                 ELSE Outcome(TRUE, None, PyBool(compared.pipeline_result = PyTrue)))

\* == on a pipeline that ended with None: False, and nothing raised.
C16_Witness ==
    /\ compared.operator = "==" /\ compared.pipeline_result = PyNone
    /\ compared.outcome = Outcome(TRUE, None, PyFalse)

\* < on a file without length: TypeError.
C16_WitnessOrder ==
    /\ compared.operator = "<" /\ ~compared.self_length.given
    /\ compared.outcome.exc = "TypeError"

\* The first element of objects_to_compare for which is_the_same is not
\* truthy, or 0 when there is none.
FirstNotSame ==
    IF \A i \in 1..Len(comparing.sames) : Truthy(comparing.sames[i]) THEN 0
    ELSE CHOOSE i \in 1..Len(comparing.sames) :
            /\ ~Truthy(comparing.sames[i])
            /\ \A j \in 1..(i - 1) : Truthy(comparing.sames[j])

\* C17: BaseComparer.process raises ValueError for an empty objects_to_compare
\* and for one that is no list or tuple; otherwise it asks is_the_same for the
\* candidates in list order, returns True iff every answer is truthy, and
\* else returns the first answer that is not truthy as it is (None stays
\* None, False stays False) without asking for the later candidates.
C17_FirstNotSameOrTrue ==
    comparing.op = "process"
    => IF comparing.sames = << >> \/ comparing.container \notin {"list", "tuple"}
       THEN comparing.exc = "ValueError" /\ comparing.evaluated = 0
       ELSE /\ comparing.exc = None
            /\ (comparing.val = PyTrue) <=> (FirstNotSame = 0)
            /\ FirstNotSame = 0 => comparing.evaluated = Len(comparing.sames)
            /\ FirstNotSame # 0
                  => /\ comparing.val = comparing.sames[FirstNotSame]
                     /\ comparing.evaluated = FirstNotSame

\* None for the second of four candidates: None is returned and the third
\* and fourth are not asked for.
C17_Witness ==
    /\ comparing.op = "process" /\ comparing.container = "list"
    /\ Len(comparing.sames) = 4 /\ comparing.sames[1] = PyTrue
    /\ comparing.sames[2] = PyNone
    /\ comparing.val = PyNone /\ comparing.evaluated = 2

C20_WitnessRepeated ==
    /\ extraction.call.op = "FileSystemDataExtracter" /\ extraction.repeated
    /\ ~extraction.overrider /\ extraction.exc = None
    /\ extraction.fields = extraction.before

\* C21: reading `content` while the cache strategy is NonCache raises
\* ImproperlyConfiguredFile (no data is returned and OperationNotAllowed does
\* not come out), and leaves the buffer, its position and _iterable_in_use as
\* they were.
C21_NonCacheContentRefused ==
    [][(op' = "content" /\ fc.cache_helper = "NonCache")
          => /\ exc' = "ImproperlyConfiguredFile" /\ val' = NoVal
             /\ fc'.buffer = fc.buffer /\ BufferPos(fc') = BufferPos(fc)
             /\ fc'.in_use = fc.in_use]_vars

\* `content` refused in the middle of an iteration over a NonCache controller.
C21_Witness ==
    /\ op = "content" /\ fc.cc.cls = "NonCache"
    /\ exc = "ImproperlyConfiguredFile"
    /\ fc.in_use /\ BufferPos(fc) > 0 /\ BufferPos(fc) < Len(BufferData(fc))

\* C25: read(size) with size > 0, called while no iteration is in progress,
\* leaves _block_size as it was before the call and _iterable_in_use False,
\* whether it returns a block or raises (fresh controller, buffer at its end).
C25_ReadRestoresBlockSize ==
    [][(op' = "read" /\ asked' > 0 /\ ~fc.in_use)
          => (fc'.block_size = fc.block_size /\ ~fc'.in_use)]_vars

\* A step in which __next__ raised StopIteration.
Exhausting == op' = "next" /\ exc' = "StopIteration"

C28_BufferAlwaysReturned ==
    op = "content_as_buffer"
    => /\ exc = None /\ val.kind = "stream" /\ val.pos = 0
       /\ ~fc.seekable => val.data = fc.source

\* C30: a controller made over a non-seekable source or with force=True uses
\* the cache strategy the caller configured in cache_helper, and chooses one
\* itself only when none was configured.
C30_ConfiguredStrategyUsed ==
    ((~fc.seekable \/ fc.force) /\ fc.configured # None)
    => /\ fc.cache_helper = fc.configured
       /\ fc.cc # NoStrategy => fc.cc.cls = fc.configured

\* C22 as stated: after every call of FilePacket.reset() the mapping of
\* entries is empty, the last element of history is the mapping that was
\* current right before the call, and the elements before it are the history
\* as it was.
C22_ResetArchivesCurrentMapping ==
    packet.op = "reset"
    => /\ IsEmptyMapping(packet.now.internal_files)
       /\ packet.now.history = Append(packet.before.history, packet.before.internal_files)

\* C22, amended: after every call of reset() the mapping of entries is empty
\* and history is a list.  When the mapping held entries before the call, it
\* is the last element of history and the elements before it are unchanged.
\* When it held none, FilePacket of filejacket leaves history as it was (an
\* empty list if it was None), while FilePacket of handler appends the empty
\* mapping as well.
C22_ResetArchivesNonEmptyMapping ==
    packet.op = "reset"
    => /\ IsEmptyMapping(packet.now.internal_files)
       /\ ~packet.now.history_is_none
       /\ packet.now.history =
             (IF IsEmptyMapping(packet.before.internal_files)
                    /\ packet.now.variant = "filejacket"
              THEN packet.before.history
              ELSE Append(packet.before.history, packet.before.internal_files))

\* A second reset that archives the current mapping behind an earlier one.
C22_Witness ==
    /\ packet.op = "reset" /\ packet.now.variant = "filejacket"
    /\ Len(packet.before.history) = 1 /\ Len(packet.now.history) = 2
    /\ packet.now.history[1] = packet.before.history[1]
    /\ packet.now.history[2] = packet.before.internal_files
    /\ ~IsEmptyMapping(packet.before.internal_files)

\* C24: FileActions(kwargs) raises SerializerError when a key is no
\* attribute of FileActions; otherwise every flag named in kwargs has the
\* value given and every other flag is False; and __serialize__ returns the
\* 16 flags, 8 pending and 8 done, each with its current value.
C24_ConstructorAndSerialize ==
    /\ constructed.op = "init"
          => IF \E key \in DOMAIN constructed.kw : ~HasAttribute(key)
             THEN constructed.exc = "SerializerError"
             ELSE /\ constructed.exc = None
                  /\ \A f \in FlagNames :
                        constructed.flags[f] =
                           (IF f \in DOMAIN constructed.kw THEN constructed.kw[f] ELSE FALSE)
    /\ constructed.op = "serialize"
          => /\ DOMAIN constructed.data = PendingFlags \cup DoneFlags
             /\ Cardinality(DOMAIN constructed.data) = 16
             /\ \A f \in DOMAIN constructed.data : constructed.data[f] = constructed.flags[f]

\* __serialize__ after FileActions(save=True, was_saved=False) and hashed().
C24_Witness ==
    /\ constructed.op = "serialize" /\ constructed.called = "hashed"
    /\ DOMAIN constructed.kw = {"save", "was_saved"}
    /\ constructed.kw["save"] /\ ~constructed.kw["was_saved"]
    /\ constructed.data["save"] /\ constructed.data["was_hashed"]
    /\ ~constructed.data["hash"]

\* FileActions(colour=True) raised SerializerError.
C24_WitnessRaised ==
    /\ constructed.op = "init" /\ DOMAIN constructed.kw = {"colour"}
    /\ constructed.exc = "SerializerError"

\* C29: load_from_cache of a strategy that stores data (CacheInFile,
\* CacheInMemory) raises EmptyContentError when no chunk was written with
\* save_and_return, and otherwise returns the chunks written, concatenated in
\* the order of the calls.
C29_EmptyRaisesElseConcatenation ==
    (cop = "load_from_cache" /\ strategy.cls \in {"CacheInFile", "CacheInMemory"})
    => IF strategy.data = << >>
       THEN cexc = "EmptyContentError"
       ELSE cexc = None /\ cval = strategy.data

\* The complete_filename setter changed the filename or the extension of a
\* file that was saved before.
NameChangedAfterSave ==
    /\ lifecycle'.op = "complete_filename" /\ ~lifecycle.w.file.adding
    /\ <<lifecycle'.w.file.filename, lifecycle'.w.file.extension>>
          # <<lifecycle.w.file.filename, lifecycle.w.file.extension>>

\* C23: changing the filename or the extension of a file that was saved
\* before (adding False) leaves the file with _state.renaming True and the
\* rename action pending; and after the save that follows, adding, changing
\* and renaming are all False.
C23_NameChangePutsFileInRenaming ==
    [][/\ NameChangedAfterSave
             => (lifecycle'.w.file.renaming /\ lifecycle'.w.file.actions["rename"])
       /\ (lifecycle.op = "complete_filename" /\ lifecycle'.op = "save"
              /\ lifecycle'.exc = None)
             => (~lifecycle'.w.file.adding /\ ~lifecycle'.w.file.changing
                    /\ ~lifecycle'.w.file.renaming)]_vars

\* The sum of the lengths of the files a mapping holds.
RECURSIVE LengthOver(_, _)
LengthOver(mapping, keys) ==
    IF keys = {} THEN 0
    ELSE LET k == CHOOSE x \in keys : TRUE
         IN (IF mapping[k] = NoEntry THEN 0 ELSE FileLength(mapping[k]))
               + LengthOver(mapping, keys \ {k})

\* C35: the length of a FilePacket (filejacket) equals the sum of the lengths
\* of the entries its mapping holds now, after any sequence of __setitem__
\* (also on a key already present), reset and clean_history calls.
C35_LengthIsSumOfEntries ==
    packet.now.variant = "filejacket"
    => packet.now.length = LengthOver(packet.now.internal_files, PacketKeys)

\* C33: assigning a value FileContent accepts to file.content replaces the
\* content controller, leaves save and hash pending with was_saved and
\* was_hashed False, and sets _state.changing exactly when the file was saved
\* before (adding False) and had content (otherwise changing, like adding and
\* renaming, stays as it was); assigning an empty or invalid value leaves the
\* controller, _state and _actions as they were.
C33_ContentAssignment ==
    [][lifecycle'.op = "content"
          => IF FileContent_raises_ValueError(lifecycle'.value)
             THEN /\ lifecycle'.controller = lifecycle.controller
                  /\ lifecycle'.w = lifecycle.w
             ELSE /\ lifecycle'.controller # lifecycle.controller
                  /\ lifecycle'.controller.made_from = lifecycle'.value
                  /\ lifecycle'.w.file.content
                  /\ lifecycle'.w.file.actions["save"] /\ ~lifecycle'.w.file.actions["was_saved"]
                  /\ lifecycle'.w.file.actions["hash"] /\ ~lifecycle'.w.file.actions["was_hashed"]
                  /\ lifecycle'.w.file.changing =
                        (\/ lifecycle.w.file.changing
                         \/ ~lifecycle.w.file.adding /\ lifecycle.controller # NoController)
                  /\ lifecycle'.w.file.adding = lifecycle.w.file.adding
                  /\ lifecycle'.w.file.renaming = lifecycle.w.file.renaming]_vars

\* A new file was given content and saved, and content was assigned again:
\* the controller is the new one, save and hash are pending again and the
\* file is changing.
C33_Witness ==
    /\ lifecycle.op = "content" /\ lifecycle.calls = 3
    /\ lifecycle.controller = Controller("stream", 3)
    /\ lifecycle.w.file.changing /\ ~lifecycle.w.file.adding
    /\ lifecycle.w.file.actions["save"] /\ ~lifecycle.w.file.actions["was_saved"]
    /\ lifecycle.w.file.actions["hash"] /\ ~lifecycle.w.file.actions["was_hashed"]
    /\ lifecycle.w.file.actions["was_renamed"]

\* C38: once FileNaming.rename() has reserved the name of the file, a later
\* change of the filename leaves the ledger of its directory holding the new
\* name for this file and none of the other names for it.  (That a name is
\* never reserved for two files is given by the ledger being a mapping from
\* names to one holder.)
C38_LedgerFollowsFilename ==
    [][(/\ lifecycle'.op = "complete_filename"
        /\ lifecycle.w.reserved_filenames[lifecycle.w.file.filename] = "self"
        /\ lifecycle'.w.file.filename # lifecycle.w.file.filename)
          => /\ lifecycle'.w.reserved_filenames[lifecycle'.w.file.filename] = "self"
             /\ \A n \in Filenames \ {lifecycle'.w.file.filename} :
                   lifecycle'.w.reserved_filenames[n] # "self"]_vars

\* C36: a name that get_name of WindowsRenamer, LinuxRenamer or UniqueRenamer
\* returns, called directly or by process, is neither held by the storage in
\* use nor among the reserved names in use (for UniqueRenamer: the candidate
\* returned is none of those that collide); and the loop of the Windows and
\* Linux renamers ends after at most as many rounds as there are names held
\* or reserved, each round lengthening the name by one enumeration.
C36_ReturnedNameIsFree ==
    (rcall.op \in {"get_name", "process"} /\ rcall.exc = None)
    => IF renamer.style = "unique"
       THEN rcall.candidate >= rcall.collisions
       ELSE /\ rcall.name \notin storages[rcall.usedHandler]
            /\ rcall.name \notin rcall.usedReserved
            /\ Len(rcall.name)
                  <= Cardinality(storages[rcall.usedHandler] \cup rcall.usedReserved)

\* WindowsRenamer.get_name passed over "photo", held by the storage, and
\* "photo (1)", reserved only, and returned "photo (2) (2)".
C36_Witness ==
    /\ renamer.style = "windows" /\ rcall.op = "get_name" /\ rcall.exc = None
    /\ << >> \in storages[rcall.usedHandler]
    /\ <<1>> \in rcall.usedReserved /\ <<1>> \notin storages[rcall.usedHandler]
    /\ rcall.name = <<2, 2>>

\* UniqueRenamer.get_name returned its hundredth candidate after 99 collisions.
C36_WitnessUnique ==
    /\ renamer.style = "unique" /\ rcall.op = "get_name" /\ rcall.exc = None
    /\ rcall.collisions = 99 /\ rcall.candidate = 99

\* C37: when content is assigned again to a file that holds a digest for the
\* hasher, the generate_hashes that follows leaves in hashes the digest of
\* the content the file holds now.
C37_DigestOfNewContent ==
    [][(/\ hashing.op = "content" /\ hashing.h.hashes.given
        /\ hashing'.op = "generate_hashes" /\ hashing'.exc = None)
          => hashing'.h.hashes = Digested(<<hashing'.h.body>>)]_vars

\* C40: process_from_file leaves file_system_handler of the hasher class as
\* it was before the call, whether a digest was found, load_from_file raised
\* FileNotFoundError or MultipleFileExistError, or the file has no path.
C40_HandlerRestored ==
    hashing.op = "process_from_file"
    => hashing.h.file_system_handler = hashing.handler_before

\* C34: whenever `content` of a controller whose strategy stores data returns
\* a value, after any interleaving of iter, next, read(size), reset,
\* content_as_buffer and content, the value is the source content: every
\* block of the source once and in order.
C34_ContentEqualsSource ==
    (op = "content" /\ exc = None /\ fc.cache_helper # "NonCache")
    => val = Bytes(fc.source)

\* C31: PackageExtractor.process never invokes extract for a file whose
\* extension is outside the set the extractor declares, nor when
\* object_to_process is missing: it returns False; and validate raises
\* NotImplementedError when the extractor declares no extensions or no
\* compressor class.
C31_ValidatesBeforeExtract ==
    /\ (/\ package.op = "process"
        /\ \/ ~package.given
           \/ package.class.has_extensions /\ package.extension \notin package.class.extensions)
          => /\ ~package.extract_called
             /\ package.exc = None /\ package.val = PyFalse
    /\ (/\ package.op = "validate"
        /\ ~package.class.has_extensions \/ ~package.class.has_compressor)
          => package.exc = "NotImplementedError"

\* The zip extractor was run on a jpg file and returned False without extract.
C31_Witness ==
    /\ package.op = "process" /\ package.given /\ package.extension = "jpg"
    /\ package.class.name = "ZipCompressedFilesFromPackageExtractor"
    /\ package.val = PyFalse /\ ~package.extract_called

\* process() without object_to_process returned False.
C31_WitnessMissing ==
    /\ package.op = "process" /\ ~package.given /\ package.val = PyFalse
    /\ package.class.name = "TarCompressedFilesFromPackageExtractor"

\* PackageExtractor.validate raised NotImplementedError.
C31_WitnessNotImplemented ==
    /\ package.op = "validate" /\ package.class.name = "PackageExtractor"
    /\ package.exc = "NotImplementedError"

\* C32: a ContentBuffer decompresses nothing when it is constructed; a read
\* or seek on a buffer that is not mounted mounts the stream once; a read or
\* seek on a mounted buffer mounts nothing and goes on from the position the
\* stream was left at; close unmounts, so that the next read mounts again.
C32_LazyMountOnceUntilClose ==
    [][/\ cbuffer'.op = "init"
            => /\ cbuffer'.b.mounts = 0 /\ ~cbuffer'.b.has_buffer
               /\ ~cbuffer'.b.has_compressed_object
       /\ (cbuffer'.op \in {"read", "seek"} /\ cbuffer'.calls = cbuffer.calls + 1)
            => /\ cbuffer'.b.has_buffer
               /\ IF cbuffer.b.has_buffer
                  THEN /\ cbuffer'.b.mounts = cbuffer.b.mounts
                       /\ cbuffer'.op = "read" => cbuffer'.start = cbuffer.b.position
                  ELSE /\ cbuffer'.b.mounts = cbuffer.b.mounts + 1
                       /\ cbuffer'.op = "read" => cbuffer'.start = 0
       /\ (cbuffer'.op = "close" /\ cbuffer'.calls = cbuffer.calls + 1)
            => ~cbuffer'.b.has_buffer /\ cbuffer'.b.mounts = cbuffer.b.mounts
      ]_vars

\* read(1), read(1) on one stream: the second read went on from position 1,
\* and the stream was mounted once.
C32_Witness ==
    /\ cbuffer.op = "read" /\ cbuffer.calls = 2 /\ cbuffer.b.mounts = 1
    /\ cbuffer.start = 1 /\ cbuffer.ret = 1 /\ cbuffer.b.kind = "Zip"

\* read, close, read: the second read mounted the stream again.
C32_WitnessRemount ==
    /\ cbuffer.op = "read" /\ cbuffer.calls = 3 /\ cbuffer.b.mounts = 2
    /\ cbuffer.start = 0 /\ cbuffer.b.has_buffer

\* C39: decompress of the Tar, Zip, Rar and 7z extractors never extracts an
\* entry whose name begins with `/` or `..`, whatever overrider is; and with
\* overrider False it extracts only entries whose destination path does not
\* exist and calls no extraction when there is none.
C39_UnsafeEntriesNeverExtracted ==
    archive.op = "decompress"
       => /\ \A filename \in archive.extracted : ~begins_unsafe(filename)
          /\ ~archive.overrider
                => /\ archive.extracted \cap archive.present = {}
                   /\ archive.extracted = {} => ~archive.called

====
